---- MODULE Spec2Model ----
(***************************************************************************)
(* The datastore worker of aw-server (aw-datastore/src/worker.rs) on top   *)
(* of the PostgreSQL adapter (aw-datastore/src/postgres_helpers.rs).       *)
(*                                                                         *)
(* The database is the two tables the worker writes: `buckets` and         *)
(* `events`, each with its id sequence.  The worker owns the bucket cache, *)
(* the heartbeat memo and the commit-cycle fields.  One action per         *)
(* Command; the action is the whole of poll + handle_request_postgres +    *)
(* respond for that command.  Beside the worker: the API-key store         *)
(* (aw-datastore/src/api_key_helpers.rs) and the rate limiter              *)
(* (aw-server/src/middleware/rate_limit.rs).                               *)
(***************************************************************************)
EXTENDS Integers, Sequences, FiniteSets, TLC

(***************************************************************************)
(* Bounds of the model.                                                    *)
(***************************************************************************)
\* the events id sequence hands out at most MaxEid ids
MaxEid == 2
\* the buckets id sequence hands out at most MaxBid ids
MaxBid == 2
\* a commit cycle takes event writes until it holds MaxPending uncommitted events
MaxPending == 1
\* u64 and i64 are modelled as words of WordBits bits
WordBits == 3
\* the api_keys id sequence hands out at most MaxKeys ids
MaxKeys == 2
\* the API-key store is followed for this many seconds
MaxApiClock == 1
\* the clock stops at this many seconds
MaxClock == 17
\* event writes are taken while fewer than MaxCounted events are uncommitted
MaxCounted == 3
\* the rate limiter is followed for this many seconds
MaxRateClock == 3
\* RateLimiter.requests_per_minute of the limiter followed
requests_per_minute == 2
\* RateLimiter.window_seconds of the limiter followed
window_seconds == 2

(***************************************************************************)
(* Program constants.                                                      *)
(***************************************************************************)
\* Duration::seconds(15), the commit interval of the work loop
CommitInterval == 15
\* `uncommitted_events > 100` ends the cycle
MaxUncommitted == 100
\* chrono::Duration counts nanoseconds, the duration column microseconds
NanosPerMicro == 1000

(***************************************************************************)
(* Value domains of the inputs.                                            *)
(***************************************************************************)
BucketIds == {"b1", "b2"}
Data == {"x", "y"}
\* times are in nanoseconds: DateTime<Utc> and chrono::Duration
Timestamps == {0, NanosPerMicro}
Durations == {0, NanosPerMicro}
Pulsetimes == {0, NanosPerMicro}
\* readings of Utc::now() when a bucket is created
ClockValues == {0, CommitInterval + 1}

\* Option<T>: None is the empty sequence, Some(x) the one-element sequence
None == <<>>
Some(x) == <<x>>

VARIABLES
    pc,                 \* position of the worker in work_loop_postgres
    db_buckets,         \* table buckets: bucket_id -> row
    db_events,          \* table events: set of rows
    buckets_id_seq,     \* last value of the SERIAL sequence of buckets.id
    events_id_seq,      \* last value of the BIGSERIAL sequence of events.id
    buckets_cache,      \* HashMap<String, Bucket>
    last_heartbeat,     \* HashMap<String, Option<Event>>
    uncommitted_events,
    commit,
    quit,
    request,            \* the Command polled last
    response,           \* the Result sent for it
    pre,                \* history: the state the request was handled in
    inbox,              \* the request channel: Commands sent and not yet polled
    calls,              \* per caller: its call of a Datastore method
    db_key_value,       \* table key_value: key -> value (JSONB)
    keys_set,           \* history: key -> the text it was last set to, for the
                        \* keys set and not deleted since
    clock,              \* the time Utc::now() and NOW() read, in seconds
    last_commit_time,   \* the reading taken at the start of the cycle
    api_keys,           \* table api_keys: set of rows
    api_keys_id_seq,    \* last value of the SERIAL sequence of api_keys.id
    validations,        \* per request guard: its call of validate_api_key
    api_call,           \* the last call of create, list or revoke and its result
    issued,             \* history: the (id, key, client_id) that create returned
    revoked,            \* history: the ids for which revoke returned true
    rate_limit_enabled, \* the environment has RATE_LIMIT_ENABLED=true
    RATE_LIMIT_CACHE,   \* HashMap<String, Vec<SystemTime>>
    exchanges,          \* per client IP: its HTTP request on the way through
                        \* the fairing and the route
    accepted            \* history: per client IP, the times of the requests
                        \* check_rate_limit returned true for

vars == <<pc, db_buckets, db_events, buckets_id_seq, events_id_seq,
          buckets_cache, last_heartbeat, uncommitted_events, commit, quit,
          request, response, pre, inbox, calls, db_key_value, keys_set,
          clock, last_commit_time, api_keys, api_keys_id_seq, validations,
          api_call, issued, revoked, rate_limit_enabled, RATE_LIMIT_CACHE,
          exchanges, accepted>>

chan_vars == <<inbox, calls>>

kv_vars == <<db_key_value, keys_set>>

time_vars == <<clock, last_commit_time>>

api_vars == <<api_keys, api_keys_id_seq, validations, api_call, issued, revoked>>

http_vars == <<rate_limit_enabled, RATE_LIMIT_CACHE, exchanges, accepted>>

db_vars == <<db_buckets, db_events, buckets_id_seq, events_id_seq>>

(***************************************************************************)
(* Small helpers.                                                          *)
(***************************************************************************)
Min(S) == CHOOSE x \in S : \A y \in S : x <= y
Max(S) == CHOOSE x \in S : \A y \in S : x >= y

\* HashMap::insert
MapInsert(m, k, v) == [x \in DOMAIN m \cup {k} |-> IF x = k THEN v ELSE m[x]]
\* HashMap::remove
MapRemove(m, k) == [x \in DOMAIN m \ {k} |-> m[x]]

EmptyMap == [x \in {} |-> None]

\* Result<Response, DatastoreError>
Ok(kind, val) == [ok |-> TRUE, kind |-> kind, val |-> <<val>>]
Err(kind, val) == [ok |-> FALSE, kind |-> kind, val |-> <<val>>]
NoRequest == [cmd |-> "none"]
NoResponse == [ok |-> FALSE, kind |-> "none", val |-> <<>>]
NoPre == [cmd |-> "none"]

\* threads that hold a clone of the Datastore handle
Callers == {"c1", "c2", "c3"}

\* request guards that can run validate_api_key at the same time
Validators == {"v1", "v2"}

\* a guard that is not in validate_api_key
IdleValidation == [pc |-> "idle", api_key |-> "", row |-> None, result |-> None,
                   start |-> "idle"]

\* no call of the API-key store yet
NoCall == [op |-> "none"]

\* the client IPs requests come from
ClientIps == {"ip1", "ip2"}

\* no request of the client is on its way; local_cache is the request-local
\* state, one value per type
IdleExchange == [stage |-> "idle", local_cache |-> EmptyMap, allowed |-> TRUE,
                 status |-> "none", body |-> "none"]

\* a caller that has not called yet
IdleCall == [state |-> "idle", ticket |-> 0, request |-> NoRequest,
             result |-> NoResponse]

\* the history record taken when a request is polled
Snapshot == [db_buckets |-> db_buckets, db_events |-> db_events,
             buckets_cache |-> buckets_cache, last_heartbeat |-> last_heartbeat,
             uncommitted_events |-> uncommitted_events, commit |-> commit,
             quit |-> quit, events_id_seq |-> events_id_seq,
             buckets_id_seq |-> buckets_id_seq, db_key_value |-> db_key_value]

\* aw_models::Event as held by callers, the memo and responses
Event(id, timestamp, duration, data) ==
    [id |-> id, timestamp |-> timestamp, duration |-> duration, data |-> data]

\* events a caller can send: no id yet
EventInputs ==
    {e \in {Event(None, t, d, x) : t \in Timestamps, d \in Durations, x \in Data} :
        /\ e.timestamp = NanosPerMicro => e.duration = 0
        /\ e.data = "y" => e.timestamp = NanosPerMicro}

\* the least Duration whose microseconds do not fit an i64
DurationOverflowing == (2 ^ (WordBits - 1)) * NanosPerMicro

\* events of any duration the type allows: negative, with a part below one
\* microsecond, and beyond the microseconds of an i64
ArbitraryEvents ==
    {Event(None, 0, d, "x") :
        d \in {0, NanosPerMicro + 1, 0 - NanosPerMicro, DurationOverflowing}}

\* the Vec<Event> of such events
ArbitraryBatches == UNION {[1..n -> ArbitraryEvents] : n \in 1..2}

\* the Vec<Event> a caller can send to insert_events
Batches == UNION {[1..n -> EventInputs] : n \in 0..2}

\* event ids a caller can name
EventIds == 1..MaxEid

\* the Vec<i64> a caller can send to delete_events_by_id
IdLists == {{}, EventIds} \cup {{i} : i \in EventIds}

\* Option<DateTime<Utc>> bounds and Option<u64> limits of the queries
StartTimes == {None, Some(NanosPerMicro)}
EndTimes == {None, Some(0)}
Limits == {None, Some(1)}
\* the least u64 that `as i64` makes negative
LimitOverflowing == Some(2 ^ (WordBits - 1))

\* strings of keys and patterns, character by character
SettingsPrefix == <<"s", "e", "t", "t", "i", "n", "g", "s", ".">>
SettingsTheme == SettingsPrefix \o <<"t", "h", "e", "m", "e">>
SettingsLang == SettingsPrefix \o <<"l", "a", "n", "g">>
CacheFoo == <<"c", "a", "c", "h", "e", ".", "f", "o", "o">>

\* keys a caller can name
Keys == {SettingsTheme, SettingsLang, CacheFoo}

\* LIKE arguments a caller can send: every key, keys under a prefix, one
\* with the one-character wildcard, and one that matches nothing
Patterns ==
    {<<"%">>,
     SettingsPrefix \o <<"%">>,
     SettingsPrefix \o <<"t", "%">>,
     <<"c", "a", "c", "h", "e", "_", "f", "o", "o">>,
     <<"%", "o">>,
     <<"x">>}

\* the `data: String` of SetKeyValue: JSON texts in and out of the form
\* serde_json writes, and one text that is not JSON
JsonTexts == {"1", " 1", "\"dark\"", "dark"}

\* aw_models::Bucket as sent by a caller of create_bucket
BucketInputs ==
    {[bid |-> None, id |-> b, created |-> cr,
      metadata |-> [start |-> None, end |-> None]] :
        b \in BucketIds, cr \in {None, Some(1)}}

(***************************************************************************)
(* SQL adapter (postgres_helpers.rs), as operators on the tables.          *)
(***************************************************************************)
\* Duration::num_microseconds: whole microseconds, rounded towards zero
num_microseconds(duration) ==
    IF duration >= 0 THEN duration \div NanosPerMicro
    ELSE 0 - ((0 - duration) \div NanosPerMicro)

\* Duration::microseconds
Duration_microseconds(duration_microseconds) ==
    duration_microseconds * NanosPerMicro

\* a row of `events` as the Event the adapter builds from it
RowEvent(row) ==
    Event(Some(row.id), row.timestamp, Duration_microseconds(row.duration),
          row.data)

\* timestamp + (duration || ' microseconds')::interval
RowEnd(row) == row.timestamp + row.duration * NanosPerMicro

EventsOf(evs, bucket_id) == {e \in evs : e.bucket_id = bucket_id}

\* get_stored_buckets: one Bucket per row of buckets, LEFT OUTER JOIN events,
\* first_event = MIN(timestamp), last_event = MAX(timestamp + duration)
get_stored_buckets(bkts, evs) ==
    [b \in DOMAIN bkts |->
        LET mine == EventsOf(evs, b) IN
        [bid |-> Some(bkts[b].id), id |-> b, created |-> Some(bkts[b].created),
         metadata |->
            [start |-> IF mine = {} THEN None
                       ELSE Some(Min({e.timestamp : e \in mine})),
             end |-> IF mine = {} THEN None
                     ELSE Some(Max({RowEnd(e) : e \in mine}))]]]

\* create_bucket: `bucket.created.unwrap_or_else(Utc::now)`
create_bucket_created(bucket, now) ==
    IF bucket.created = None THEN now ELSE bucket.created[1]

\* a faulty create_bucket: the INSERT of a stored bucket_id is accepted
create_bucket_duplicate_never(bkts, bucket) == FALSE

\* create_bucket: the INSERT fails with "duplicate key" (bucket_id is UNIQUE)
create_bucket_duplicate(bkts, bucket) == bucket.id \in DOMAIN bkts

\* create_bucket: the row INSERTed INTO buckets
create_bucket_row(bucket, created, id) ==
    [id |-> id, created |-> created]

\* a faulty create_bucket: `bucket.bid` is left as the caller sent it
create_bucket_assign_no_bid(bucket, created, id) ==
    [bucket EXCEPT !.created = Some(created)]

\* create_bucket: the &mut Bucket after `bucket.bid = Some(id)` and
\* `bucket.created = Some(created)`
create_bucket_assign(bucket, created, id) ==
    [bucket EXCEPT !.bid = Some(id), !.created = Some(created)]

\* a faulty delete_bucket: `rows_affected` is not looked at
delete_bucket_found_always(bkts, bucket_id) == TRUE

\* delete_bucket: `rows_affected` is not 0
delete_bucket_found(bkts, bucket_id) == bucket_id \in DOMAIN bkts

\* a faulty delete_bucket: the DELETE removes no row
delete_bucket_rows_none(bkts, bucket_id) == bkts

\* delete_bucket: DELETE FROM buckets WHERE bucket_id = $1
delete_bucket_rows(bkts, bucket_id) == MapRemove(bkts, bucket_id)

\* delete_bucket: the events that stay (ON DELETE CASCADE removes the rest)
delete_bucket_cascade(evs, bucket_id) == {e \in evs : e.bucket_id # bucket_id}

\* a faulty insert_events: the ids of each batch start again at 1
insert_events_rows_restarting(bucket_id, events, seq) ==
    {[id |-> i, bucket_id |-> bucket_id,
      timestamp |-> events[i].timestamp,
      duration |-> num_microseconds(events[i].duration),
      data |-> events[i].data] : i \in 1..Len(events)}

\* a faulty insert_events: every row gets the sequence's current value
insert_events_rows_stale_id(bucket_id, events, seq) ==
    {[id |-> seq, bucket_id |-> bucket_id,
      timestamp |-> events[i].timestamp,
      duration |-> num_microseconds(events[i].duration),
      data |-> events[i].data] : i \in 1..Len(events)}

\* insert_events: the rows INSERTed, ids taken from the sequence in order
insert_events_rows(bucket_id, events, seq) ==
    {[id |-> seq + i, bucket_id |-> bucket_id,
      timestamp |-> events[i].timestamp,
      duration |-> num_microseconds(events[i].duration),
      data |-> events[i].data] : i \in 1..Len(events)}

\* insert_events: the returned Vec<Event> (`event.id = Some(id)`)
insert_events_result(events, seq) ==
    [i \in 1..Len(events) |-> [events[i] EXCEPT !.id = Some(seq + i)]]

\* the INSERT INTO events fails on the foreign key when the bucket is absent
insert_events_fails(bkts, bucket_id, events) ==
    Len(events) > 0 /\ bucket_id \notin DOMAIN bkts

\* `event.duration.num_microseconds()` is None: `ok_or_else` makes it an error
duration_too_large(duration) ==
    \/ num_microseconds(duration) >= 2 ^ (WordBits - 1)
    \/ num_microseconds(duration) < 0 - (2 ^ (WordBits - 1))

\* insert_events: the index of the event whose step of the loop returns the
\* error, 0 when every event is inserted
insert_events_stops(bkts, bucket_id, events) ==
    LET failing == {i \in 1..Len(events) :
                      \/ duration_too_large(events[i].duration)
                      \/ insert_events_fails(bkts, bucket_id, events)}
    IN IF failing = {} THEN 0 ELSE Min(failing)

\* insert_events: the error of the event it stops at
insert_events_error(events, k) ==
    IF duration_too_large(events[k].duration)
    THEN Err("InternalError", "Duration too large for microseconds")
    ELSE Err("InternalError", "Failed to insert event")

\* insert_events: the values taken from the sequence; a failing INSERT has
\* spent its nextval(), an event that is too large reaches no INSERT
insert_events_nextvals(events, k) ==
    IF k = 0 THEN Len(events)
    ELSE IF duration_too_large(events[k].duration) THEN k - 1 ELSE k

\* a faulty insert_events: the rows of a batch that fails are rolled back
insert_events_committed_none(bucket_id, events, k, seq) == {}

\* insert_events stopping at event k: each INSERT before it was a statement
\* of its own on the pool, and its row stays
insert_events_committed(bucket_id, events, k, seq) ==
    insert_events_rows(bucket_id, SubSeq(events, 1, k - 1), seq)

\* WHERE timestamp + duration >= $start
MatchesStart(e, start) == RowEnd(e) >= start
\* WHERE timestamp <= $end
MatchesEnd(e, end) == e.timestamp <= end

\* get_events: the rows selected by the arm of
\* `match (starttime_opt, endtime_opt, limit_opt)` that is taken
get_events_where(evs, bucket_id, start, end, limit) ==
    LET mine == EventsOf(evs, bucket_id) IN
    CASE start # None /\ end # None /\ limit # None ->
            {e \in mine : MatchesStart(e, start[1]) /\ MatchesEnd(e, end[1])}
      [] start # None /\ end # None /\ limit = None ->
            {e \in mine : MatchesStart(e, start[1]) /\ MatchesEnd(e, end[1])}
      [] start # None /\ end = None /\ limit # None ->
            {e \in mine : MatchesStart(e, start[1])}
      [] start = None /\ end # None /\ limit # None ->
            {e \in mine : MatchesEnd(e, end[1])}
      [] start = None /\ end = None /\ limit # None -> mine
      [] OTHER -> mine

\* get_events: whether the arm taken has a LIMIT clause
get_events_limited(start, end, limit) == limit # None

\* `limit as i64`: the u64 reinterpreted as a two's complement word
as_i64(limit) ==
    IF limit >= 2 ^ (WordBits - 1) THEN limit - 2 ^ WordBits ELSE limit

\* the query fails: PostgreSQL rejects a negative LIMIT
get_events_fails(start, end, limit) ==
    get_events_limited(start, end, limit) /\ as_i64(limit[1]) < 0

\* the orders ORDER BY timestamp DESC allows for a set of rows
OrderByTimestampDesc(rows) ==
    {s \in [1..Cardinality(rows) -> rows] :
        /\ \A i, j \in DOMAIN s : i # j => s[i] # s[j]
        /\ \A i, j \in DOMAIN s : i < j => s[i].timestamp >= s[j].timestamp}

Take(s, n) == SubSeq(s, 1, IF n < Len(s) THEN n ELSE Len(s))

\* get_events: every Vec<Event> the query can return
get_events(evs, bucket_id, start, end, limit) ==
    {LET cut == IF get_events_limited(start, end, limit)
                THEN Take(s, as_i64(limit[1])) ELSE s
     IN [i \in DOMAIN cut |-> RowEvent(cut[i])] :
        s \in OrderByTimestampDesc(get_events_where(evs, bucket_id, start, end, limit))}

\* get_event: WHERE bucket_id = $1 AND id = $2
get_event(evs, bucket_id, event_id) ==
    LET hit == {e \in EventsOf(evs, bucket_id) : e.id = event_id} IN
    IF hit = {} THEN Err("InternalError", "Event not found")
    ELSE Ok("Event", RowEvent(CHOOSE e \in hit : TRUE))

\* get_event_count: SELECT COUNT(*) with the clauses of the arm taken
get_event_count(evs, bucket_id, start, end) ==
    Cardinality({e \in EventsOf(evs, bucket_id) :
        /\ start # None => MatchesStart(e, start[1])
        /\ end # None => MatchesEnd(e, end[1])})

\* a faulty delete_events_by_id: the DELETE has no `bucket_id = $1`
delete_events_by_id_any_bucket(evs, bucket_id, event_ids) ==
    {e \in evs : e.id \notin event_ids}

\* delete_events_by_id: DELETE FROM events WHERE bucket_id = $1 AND id = ANY($2)
delete_events_by_id(evs, bucket_id, event_ids) ==
    IF event_ids = {} THEN evs
    ELSE {e \in evs : ~(e.bucket_id = bucket_id /\ e.id \in event_ids)}

\* replace_last_event: the row chosen by ORDER BY timestamp DESC, id DESC LIMIT 1
TailRows(evs, bucket_id) ==
    {e \in EventsOf(evs, bucket_id) :
        \A o \in EventsOf(evs, bucket_id) :
            \/ o.timestamp < e.timestamp
            \/ (o.timestamp = e.timestamp /\ o.id <= e.id)}

\* a faulty replace_last_event: the tail row is deleted, not updated
replace_last_event_deleting(evs, bucket_id, event) ==
    evs \ TailRows(evs, bucket_id)

\* replace_last_event: `num_microseconds()` is None for the new duration
replace_last_event_fails(event) == duration_too_large(event.duration)

\* replace_last_event: the error it returns then
replace_last_event_error == Err("InternalError", "Duration too large for microseconds")

\* replace_last_event: UPDATE events SET timestamp, duration, data on that row
replace_last_event(evs, bucket_id, event) ==
    {IF e \in TailRows(evs, bucket_id)
     THEN [e EXCEPT !.timestamp = event.timestamp,
                    !.duration = num_microseconds(event.duration),
                    !.data = event.data]
     ELSE e : e \in evs}

(***************************************************************************)
(* Key-value store (postgres_helpers.rs), as operators on table key_value. *)
(***************************************************************************)
\* serde_json::from_str::<Value>: Some(value), or None for a text that is not
\* JSON; white space around the value is skipped
serde_json_from_str(text) ==
    CASE text \in {"1", " 1"} -> Some([type |-> "number", v |-> "1"])
      [] text = "\"dark\"" -> Some([type |-> "string", v |-> "dark"])
      [] OTHER -> None

\* serde_json::to_string(&Value): the compact text of the value
serde_json_to_string(value) ==
    IF value.type = "string" THEN "\"" \o value.v \o "\"" ELSE value.v

\* `key LIKE $1`: % stands for any string, _ for any one character
RECURSIVE like(_, _)
like(key, pattern) ==
    IF pattern = <<>> THEN key = <<>>
    ELSE IF Head(pattern) = "%"
         THEN \/ like(key, Tail(pattern))
              \/ (key # <<>> /\ like(Tail(key), pattern))
         ELSE /\ key # <<>>
              /\ (Head(pattern) = "_" \/ Head(pattern) = Head(key))
              /\ like(Tail(key), Tail(pattern))

\* `key.starts_with("settings.")`
starts_with(key, prefix) ==
    Len(key) >= Len(prefix) /\ SubSeq(key, 1, Len(prefix)) = prefix

\* get_key_value: the text of the row's value, or NoSuchKey without a row
get_key_value(kv, key) ==
    IF key \in DOMAIN kv
    THEN Ok("KeyValue", serde_json_to_string(kv[key]))
    ELSE Err("NoSuchKey", key)

\* set_key_value: the text does not parse
set_key_value_fails(value) == serde_json_from_str(value) = None

\* a faulty set_key_value: ON CONFLICT (key) DO NOTHING
set_key_value_keeping(kv, key, value) ==
    IF key \in DOMAIN kv THEN kv
    ELSE MapInsert(kv, key, serde_json_from_str(value)[1])

\* set_key_value: INSERT .. ON CONFLICT (key) DO UPDATE SET value = $2.
\* updated_at = NOW() is written too; no query of the store reads it.
set_key_value(kv, key, value) ==
    MapInsert(kv, key, serde_json_from_str(value)[1])

\* a faulty delete_key_value: NoSuchKey when no row was deleted
delete_key_value_result_strict(kv, key) ==
    IF key \in DOMAIN kv THEN Ok("Empty", None) ELSE Err("NoSuchKey", key)

\* delete_key_value: Ok(()) whatever the number of rows deleted
delete_key_value_result(kv, key) == Ok("Empty", None)

\* delete_key_value: DELETE FROM key_value WHERE key = $1
delete_key_value(kv, key) == MapRemove(kv, key)

\* a faulty get_key_values: the rows are not filtered by prefix
get_key_values_unfiltered(kv, pattern) ==
    LET rows == {k \in DOMAIN kv : like(k, pattern)}
    IN [k \in rows |-> serde_json_to_string(kv[k])]

\* get_key_values: the rows WHERE key LIKE $1 whose key starts with
\* "settings.", as a HashMap of key to text
get_key_values(kv, pattern) ==
    LET rows == {k \in DOMAIN kv : like(k, pattern)}
    IN [k \in {r \in rows : starts_with(r, SettingsPrefix)} |->
            serde_json_to_string(kv[k])]

(***************************************************************************)
(* Heartbeat merge (aw_transform::heartbeat).                              *)
(***************************************************************************)
\* merge(prev, next, pulsetime): Some(merged) or None
heartbeat(last_event, event, pulsetime) ==
    LET gap == event.timestamp - (last_event.timestamp + last_event.duration) IN
    IF last_event.data = event.data /\ 0 <= gap /\ gap <= pulsetime
    THEN Some(Event(last_event.id, last_event.timestamp,
                    (event.timestamp + event.duration) - last_event.timestamp,
                    last_event.data))
    ELSE None

(***************************************************************************)
(* Initial state: the worker is constructed (DatastoreWorker::new) and the *)
(* database is a new one, or one where an earlier run created two buckets. *)
(***************************************************************************)
InitialDatabases ==
    {[buckets |-> EmptyMap, events |-> {}, buckets_id_seq |-> 0, events_id_seq |-> 0],
     [buckets |-> [b \in {"b1", "b2"} |->
                    [id |-> IF b = "b1" THEN 1 ELSE 2, created |-> 0]],
      events |-> {},
      buckets_id_seq |-> 2, events_id_seq |-> 0]}

\* the worker as constructed, on the database db
InitWith(db) ==
    /\ pc = "migrate"
    /\ db_buckets = db.buckets
    /\ db_events = db.events
    /\ buckets_id_seq = db.buckets_id_seq
    /\ events_id_seq = db.events_id_seq
    /\ buckets_cache = EmptyMap
    /\ last_heartbeat = EmptyMap
    /\ uncommitted_events = 0
    /\ commit = FALSE
    /\ quit = FALSE
    /\ request = NoRequest
    /\ response = NoResponse
    /\ pre = NoPre
    /\ inbox = <<>>
    /\ calls = [c \in Callers |-> IdleCall]
    /\ db_key_value = EmptyMap
    /\ keys_set = EmptyMap
    /\ clock = 0
    /\ last_commit_time = 0
    /\ api_keys = {}
    /\ api_keys_id_seq = 0
    /\ validations = [t \in Validators |-> IdleValidation]
    /\ api_call = NoCall
    /\ issued = {}
    /\ revoked = {}
    /\ RATE_LIMIT_CACHE = EmptyMap
    /\ exchanges = [ip \in ClientIps |-> IdleExchange]
    /\ accepted = [ip \in ClientIps |-> <<>>]

\* RATE_LIMIT_ENABLED is not set where the worker is followed
Init ==
    /\ \E db \in InitialDatabases : InitWith(db)
    /\ rate_limit_enabled = FALSE

(***************************************************************************)
(* work_loop_postgres: start-up.                                           *)
(***************************************************************************)
\* the results of sqlx::migrate!().run()
MigrationResults == {"Ok", "Err"}

\* the positions from which the cache is loaded: after `info!` of a
\* migration that succeeded, after `error!` and `warn!` of one that failed
LoadPositions == {"load", "load_logged"}

\* a faulty start-up: a migration error ends the worker
migrate_next_fatal(result) ==
    IF result = "Ok" THEN "load" ELSE "finished"

\* the match on the migration's result: both arms log and fall through
migrate_next(result) ==
    IF result = "Ok" THEN "load" ELSE "load_logged"

\* sqlx::migrate!().run(): Ok, or an error that is logged and tolerated
Migrate ==
    /\ pc = "migrate"
    /\ \E result \in MigrationResults : pc' = migrate_next(result)
    /\ UNCHANGED <<db_vars, buckets_cache, last_heartbeat, uncommitted_events,
                   commit, quit, request, response, pre, chan_vars, kv_vars,
                   time_vars, api_vars, http_vars>>

\* `let mut buckets_cache = get_stored_buckets(&pool).unwrap()`
LoadBuckets ==
    /\ pc \in LoadPositions
    /\ buckets_cache' = get_stored_buckets(db_buckets, db_events)
    /\ pc' = "begin"
    /\ UNCHANGED <<db_vars, last_heartbeat, uncommitted_events,
                   commit, quit, request, response, pre, chan_vars, kv_vars,
                   time_vars, api_vars, http_vars>>

\* top of the outer loop: a new commit cycle
BeginCycle ==
    /\ pc = "begin"
    /\ uncommitted_events' = 0
    /\ commit' = FALSE
    /\ pc' = "poll"
    /\ last_commit_time' = clock
    /\ UNCHANGED <<db_vars, buckets_cache, last_heartbeat, quit,
                   request, response, pre, chan_vars, kv_vars, clock,
                   api_vars, http_vars>>

\* responder.poll() fails: every handle is gone
PollDisconnected ==
    /\ pc = "poll"
    /\ quit' = TRUE
    /\ pc' = "finished"
    /\ UNCHANGED <<db_vars, buckets_cache, last_heartbeat,
                   uncommitted_events, commit, request, response, pre,
                   chan_vars, kv_vars, time_vars, api_vars, http_vars>>

\* a faulty work loop: `self.quit` is left out of the test
CycleEnds_without_quit(elapsed) ==
    \/ commit
    \/ elapsed > CommitInterval
    \/ uncommitted_events > MaxUncommitted

\* a faulty work loop: the interval test is `>=`
CycleEnds_at_interval(elapsed) ==
    \/ commit
    \/ elapsed >= CommitInterval
    \/ uncommitted_events > MaxUncommitted
    \/ quit

\* a faulty work loop: `self.commit` is left out of the test
CycleEnds_without_commit(elapsed) ==
    \/ elapsed > CommitInterval
    \/ uncommitted_events > MaxUncommitted
    \/ quit

\* a faulty work loop: the count of uncommitted events is left out of the test
CycleEnds_without_count(elapsed) ==
    \/ commit
    \/ elapsed > CommitInterval
    \/ quit

\* the cycle ends after this request
CycleEnds(elapsed) ==
    \/ commit
    \/ elapsed > CommitInterval
    \/ uncommitted_events > MaxUncommitted
    \/ quit

\* after respond(): the test that breaks the inner loop, and `if self.quit`
CommitCheck ==
    /\ pc = "respond"
    /\ pc' = IF CycleEnds(clock - last_commit_time)
             THEN (IF quit THEN "finished" ELSE "begin")
             ELSE "poll"
    /\ request' = NoRequest
    /\ response' = NoResponse
    /\ pre' = NoPre
    /\ UNCHANGED <<db_vars, buckets_cache, last_heartbeat,
                   uncommitted_events, commit, quit, chan_vars, kv_vars,
                   time_vars, api_vars, http_vars>>

\* time passes
Tick ==
    /\ clock < MaxClock
    /\ clock' = clock + 1
    /\ UNCHANGED <<pc, db_vars, buckets_cache, last_heartbeat,
                   uncommitted_events, commit, quit, request, response, pre,
                   chan_vars, kv_vars, last_commit_time, api_vars, http_vars>>

\* a faulty channel: poll() hands out the newest request
poll_next_newest(queue) == queue[Len(queue)]

\* responder.poll(): the request polled is the oldest one in the channel
poll_next(queue) == Head(queue)

\* responder.poll() and response_sender.respond(response).  With requests in
\* the channel the one polled is req and its caller gets resp; with none,
\* poll() blocks until a request is sent, here req by a thread that is not
\* among Callers, and the send and the poll are one step.
Channel(req, resp) ==
    IF inbox = <<>>
    THEN UNCHANGED chan_vars
    ELSE /\ poll_next(inbox).request.cmd = req.cmd
         /\ poll_next(inbox).request = req
         /\ inbox' = SelectSeq(inbox, LAMBDA m : m # poll_next(inbox))
         /\ calls' = [calls EXCEPT ![poll_next(inbox).caller].state = "returned",
                                   ![poll_next(inbox).caller].result = resp]

\* what every command does: it is polled in "poll" and answered
Answer(req, resp) ==
    /\ pc = "poll"
    /\ pc' = "respond"
    /\ request' = req
    /\ response' = resp
    /\ pre' = Snapshot
    /\ Channel(req, resp)
    /\ UNCHANGED <<time_vars, api_vars, http_vars>>

\* a command whose arm of handle_request_postgres has no query on key_value
Handle(req, resp) ==
    /\ Answer(req, resp)
    /\ UNCHANGED kv_vars

(***************************************************************************)
(* handle_request_postgres: one action per Command.                        *)
(***************************************************************************)
\* Command::CreateBucket: the cache entry inserted on success
create_bucket_cached(cache, bucket, created, id) ==
    MapInsert(cache, bucket.id, create_bucket_assign(bucket, created, id))

CreateBucket(bucket) ==
    /\ buckets_id_seq < MaxBid
    /\ \E now \in ClockValues :
        LET created == create_bucket_created(bucket, now)
            id == buckets_id_seq + 1
        IN
        \* nextval() is taken before the unique index rejects the row
        /\ buckets_id_seq' = id
        /\ IF create_bucket_duplicate(db_buckets, bucket)
           THEN /\ Handle([cmd |-> "CreateBucket", bucket |-> bucket],
                          Err("BucketAlreadyExists", bucket.id))
                /\ UNCHANGED <<db_buckets, buckets_cache, commit>>
           ELSE /\ db_buckets' = MapInsert(db_buckets, bucket.id,
                                           create_bucket_row(bucket, created, id))
                /\ buckets_cache' =
                        create_bucket_cached(buckets_cache, bucket, created, id)
                /\ commit' = TRUE
                /\ Handle([cmd |-> "CreateBucket", bucket |-> bucket],
                          Ok("Empty", None))
    /\ UNCHANGED <<db_events, events_id_seq, last_heartbeat, uncommitted_events, quit>>

\* a faulty DeleteBucket: the cache entry stays
delete_bucket_cached_kept(cache, bucketname) == cache

\* Command::DeleteBucket: the cache after a successful delete
delete_bucket_cached(cache, bucketname) == MapRemove(cache, bucketname)

DeleteBucket(bucketname) ==
    /\ IF delete_bucket_found(db_buckets, bucketname)
       THEN /\ db_buckets' = delete_bucket_rows(db_buckets, bucketname)
            /\ db_events' = delete_bucket_cascade(db_events, bucketname)
            /\ buckets_cache' = delete_bucket_cached(buckets_cache, bucketname)
            /\ commit' = TRUE
            /\ Handle([cmd |-> "DeleteBucket", bucket_id |-> bucketname],
                      Ok("Empty", None))
       ELSE /\ Handle([cmd |-> "DeleteBucket", bucket_id |-> bucketname],
                      Err("NoSuchBucket", bucketname))
            /\ UNCHANGED <<db_buckets, db_events, buckets_cache, commit>>
    /\ UNCHANGED <<buckets_id_seq, events_id_seq, last_heartbeat,
                   uncommitted_events, quit>>

\* Command::GetBucket: answered from the cache
get_bucket(cache, bucketname) ==
    IF bucketname \in DOMAIN cache
    THEN Ok("Bucket", cache[bucketname])
    ELSE Err("NoSuchBucket", bucketname)

GetBucket(bucketname) ==
    /\ Handle([cmd |-> "GetBucket", bucket_id |-> bucketname],
              get_bucket(buckets_cache, bucketname))
    /\ UNCHANGED <<db_vars, buckets_cache, last_heartbeat, uncommitted_events,
                   commit, quit>>

\* Command::GetBuckets: a clone of the cache
get_buckets(cache) == Ok("BucketMap", cache)

GetBuckets ==
    /\ Handle([cmd |-> "GetBuckets"], get_buckets(buckets_cache))
    /\ UNCHANGED <<db_vars, buckets_cache, last_heartbeat, uncommitted_events,
                   commit, quit>>

\* a faulty InsertEvents: a batch counts as one event
insert_events_counted_once(uncommitted, inserted_events) == uncommitted + 1

\* Command::InsertEvents: `self.uncommitted_events += inserted_events.len()`
insert_events_counted(uncommitted, inserted_events) ==
    uncommitted + Len(inserted_events)

\* Command::InsertEvents
InsertEventsArm(bucketname, events) ==
    LET req == [cmd |-> "InsertEvents", bucket_id |-> bucketname,
                events |-> events]
        k == insert_events_stops(db_buckets, bucketname, events)
    IN
    /\ events_id_seq + Len(events) <= MaxEid
    /\ events_id_seq' = events_id_seq + insert_events_nextvals(events, k)
    /\ IF k # 0
       THEN /\ db_events' = db_events \cup
                    insert_events_committed(bucketname, events, k, events_id_seq)
            /\ Handle(req, insert_events_error(events, k))
            /\ UNCHANGED <<last_heartbeat, uncommitted_events>>
       ELSE /\ db_events' = db_events \cup
                    insert_events_rows(bucketname, events, events_id_seq)
            /\ uncommitted_events' =
                    insert_events_counted(uncommitted_events,
                        insert_events_result(events, events_id_seq))
            /\ last_heartbeat' = MapInsert(last_heartbeat, bucketname, None)
            /\ Handle(req, Ok("EventList", insert_events_result(events, events_id_seq)))
    /\ UNCHANGED <<db_buckets, buckets_id_seq, buckets_cache, commit, quit>>

\* Command::InsertEvents while few events are uncommitted
InsertEvents(bucketname, events) ==
    /\ uncommitted_events < MaxPending
    /\ InsertEventsArm(bucketname, events)

\* Command::Heartbeat: `last_event_opt`, from the memo when it has an entry
\* for the bucket, else the tail row read with get_events(.., Some(1))
heartbeat_last_event(memo, evs, bucketname) ==
    IF bucketname \in DOMAIN memo
    THEN {memo[bucketname]}
    ELSE {IF r = <<>> THEN None ELSE Some(r[Len(r)]) :
            r \in get_events(evs, bucketname, None, None, Some(1))}

\* Command::Heartbeat: the result of the merge attempt on `last_event_opt`
heartbeat_merged(last_event_opt, event, pulsetime) ==
    IF last_event_opt = None THEN None
    ELSE heartbeat(last_event_opt[1], event, pulsetime)

\* Command::Heartbeat: the tail of the handler once `merged_event` is known
heartbeat_memoize(memo, bucketname, merged_event) ==
    MapInsert(memo, bucketname, Some(merged_event))

\* a faulty Heartbeat: the request is counted before the adapter's result
\* is looked at
heartbeat_counted_always(uncommitted, ok) == uncommitted + 1

\* Command::Heartbeat: `?` on the adapter's error returns before
\* `self.uncommitted_events += 1`
heartbeat_counted(uncommitted, ok) ==
    IF ok THEN uncommitted + 1 ELSE uncommitted

\* Command::Heartbeat
HeartbeatArm(bucketname, event, pulsetime) ==
    LET req == [cmd |-> "Heartbeat", bucket_id |-> bucketname, event |-> event,
                pulsetime |-> pulsetime]
    IN
    /\ \E last_event_opt \in heartbeat_last_event(last_heartbeat, db_events, bucketname) :
        LET merged == heartbeat_merged(last_event_opt, event, pulsetime) IN
        IF merged # None
        THEN /\ UNCHANGED events_id_seq
             /\ IF replace_last_event_fails(merged[1])
                THEN /\ uncommitted_events' = heartbeat_counted(uncommitted_events, FALSE)
                     /\ Handle(req, replace_last_event_error)
                     /\ UNCHANGED <<db_events, last_heartbeat>>
                ELSE /\ db_events' = replace_last_event(db_events, bucketname, merged[1])
                     /\ uncommitted_events' = heartbeat_counted(uncommitted_events, TRUE)
                     /\ last_heartbeat' =
                            heartbeat_memoize(last_heartbeat, bucketname, merged[1])
                     /\ Handle(req, Ok("Event", merged[1]))
        ELSE LET k == insert_events_stops(db_buckets, bucketname, <<event>>) IN
             /\ events_id_seq < MaxEid
             /\ events_id_seq' = events_id_seq + insert_events_nextvals(<<event>>, k)
             /\ IF k # 0
                THEN /\ uncommitted_events' = heartbeat_counted(uncommitted_events, FALSE)
                     /\ Handle(req, insert_events_error(<<event>>, k))
                     /\ UNCHANGED <<db_events, last_heartbeat>>
                ELSE LET inserted == insert_events_result(<<event>>, events_id_seq) IN
                     /\ db_events' = db_events \cup
                            insert_events_rows(bucketname, <<event>>, events_id_seq)
                     /\ uncommitted_events' = heartbeat_counted(uncommitted_events, TRUE)
                     /\ last_heartbeat' =
                            heartbeat_memoize(last_heartbeat, bucketname, inserted[1])
                     /\ Handle(req, Ok("Event", inserted[1]))
    /\ UNCHANGED <<db_buckets, buckets_id_seq, buckets_cache, commit, quit>>

\* Command::Heartbeat while few events are uncommitted
Heartbeat(bucketname, event, pulsetime) ==
    /\ uncommitted_events < MaxPending
    /\ HeartbeatArm(bucketname, event, pulsetime)

\* Command::GetEvent
GetEvent(bucketname, event_id) ==
    /\ Handle([cmd |-> "GetEvent", bucket_id |-> bucketname, event_id |-> event_id],
              get_event(db_events, bucketname, event_id))
    /\ UNCHANGED <<db_vars, buckets_cache, last_heartbeat, uncommitted_events,
                   commit, quit>>

\* Command::GetEvents
GetEvents(bucketname, starttime_opt, endtime_opt, limit_opt) ==
    LET req == [cmd |-> "GetEvents", bucket_id |-> bucketname,
                start |-> starttime_opt, end |-> endtime_opt, limit |-> limit_opt]
    IN
    /\ IF get_events_fails(starttime_opt, endtime_opt, limit_opt)
       THEN Handle(req, Err("InternalError", "Failed to query events"))
       ELSE \E events \in get_events(db_events, bucketname, starttime_opt,
                                     endtime_opt, limit_opt) :
                Handle(req, Ok("EventList", events))
    /\ UNCHANGED <<db_vars, buckets_cache, last_heartbeat, uncommitted_events,
                   commit, quit>>

\* Command::GetEventCount
GetEventCount(bucketname, starttime_opt, endtime_opt) ==
    /\ Handle([cmd |-> "GetEventCount", bucket_id |-> bucketname,
               start |-> starttime_opt, end |-> endtime_opt],
              Ok("Count", get_event_count(db_events, bucketname, starttime_opt,
                                          endtime_opt)))
    /\ UNCHANGED <<db_vars, buckets_cache, last_heartbeat, uncommitted_events,
                   commit, quit>>

\* Command::DeleteEventsById
DeleteEventsById(bucketname, event_ids) ==
    /\ db_events' = delete_events_by_id(db_events, bucketname, event_ids)
    /\ Handle([cmd |-> "DeleteEventsById", bucket_id |-> bucketname,
               event_ids |-> event_ids],
              Ok("Empty", None))
    /\ UNCHANGED <<db_buckets, buckets_id_seq, events_id_seq, buckets_cache,
                   last_heartbeat, uncommitted_events, commit, quit>>

\* Command::GetKeyValues
GetKeyValues(pattern) ==
    /\ Answer([cmd |-> "GetKeyValues", pattern |-> pattern],
              Ok("KeyValues", get_key_values(db_key_value, pattern)))
    /\ UNCHANGED <<db_vars, buckets_cache, last_heartbeat, uncommitted_events,
                   commit, quit, kv_vars>>

\* Command::SetKeyValue
SetKeyValue(key, data) ==
    LET req == [cmd |-> "SetKeyValue", key |-> key, data |-> data] IN
    /\ IF set_key_value_fails(data)
       THEN /\ Answer(req, Err("InternalError", "Failed to parse value JSON"))
            /\ UNCHANGED kv_vars
       ELSE /\ db_key_value' = set_key_value(db_key_value, key, data)
            /\ keys_set' = MapInsert(keys_set, key, data)
            /\ Answer(req, Ok("Empty", None))
    /\ UNCHANGED <<db_vars, buckets_cache, last_heartbeat, uncommitted_events,
                   commit, quit>>

\* Command::GetKeyValue
GetKeyValue(key) ==
    /\ Answer([cmd |-> "GetKeyValue", key |-> key],
              get_key_value(db_key_value, key))
    /\ UNCHANGED <<db_vars, buckets_cache, last_heartbeat, uncommitted_events,
                   commit, quit, kv_vars>>

\* Command::DeleteKeyValue
DeleteKeyValue(key) ==
    /\ db_key_value' = delete_key_value(db_key_value, key)
    /\ keys_set' = MapRemove(keys_set, key)
    /\ Answer([cmd |-> "DeleteKeyValue", key |-> key],
              delete_key_value_result(db_key_value, key))
    /\ UNCHANGED <<db_vars, buckets_cache, last_heartbeat, uncommitted_events,
                   commit, quit>>

\* a faulty ForceCommit: the flag is left as it is
force_commit_forgotten(flag) == flag

\* Command::ForceCommit: `self.commit = true`
force_commit(flag) == TRUE

\* Command::ForceCommit
ForceCommit ==
    /\ commit' = force_commit(commit)
    /\ Handle([cmd |-> "ForceCommit"], Ok("Empty", None))
    /\ UNCHANGED <<db_vars, buckets_cache, last_heartbeat, uncommitted_events,
                   quit>>

\* Command::Close
Close ==
    /\ quit' = TRUE
    /\ Handle([cmd |-> "Close"], Ok("Empty", None))
    /\ UNCHANGED <<db_vars, buckets_cache, last_heartbeat, uncommitted_events,
                   commit>>

\* the work loop around the commands
WorkLoop ==
    \/ Migrate
    \/ LoadBuckets
    \/ BeginCycle
    \/ PollDisconnected
    \/ CommitCheck
    \/ ForceCommit
    \/ Close

\* bucket commands
BucketCommands ==
    \/ \E bucket \in BucketInputs : CreateBucket(bucket)
    \/ \E b \in BucketIds : DeleteBucket(b)
    \/ \E b \in BucketIds : GetBucket(b)
    \/ GetBuckets

\* event commands that write: every input on "b1", one heartbeat on "b2"
EventWrites ==
    \/ \E events \in Batches : InsertEvents("b1", events)
    \/ \E event \in EventInputs, pulsetime \in Pulsetimes :
        Heartbeat("b1", event, pulsetime)
    \/ \E ids \in IdLists : DeleteEventsById("b1", ids)
    \/ Heartbeat("b2", Event(None, NanosPerMicro, 0, "x"), NanosPerMicro)

\* event commands that read
EventReads ==
    \/ \E b \in BucketIds, id \in EventIds : GetEvent(b, id)
    \/ \E start \in StartTimes, end \in EndTimes, limit \in Limits :
        GetEvents("b1", start, end, limit)
    \/ GetEvents("b1", None, None, LimitOverflowing)
    \/ GetEvents("b2", None, None, None)
    \/ \E start \in StartTimes, end \in EndTimes :
        GetEventCount("b1", start, end)
    \/ GetEventCount("b2", None, None)

Next == WorkLoop \/ BucketCommands \/ EventWrites \/ EventReads

\* the worker under bucket and event traffic together
Spec == Init /\ [][Next]_vars

\* the worker under event traffic: buckets are deleted, none is created
NextEvents ==
    \/ WorkLoop
    \/ EventWrites
    \/ EventReads
    \/ \E b \in BucketIds : DeleteBucket(b)

SpecEvents == Init /\ [][NextEvents]_vars

\* the worker under bucket traffic: the only event write is one heartbeat
NextBuckets ==
    \/ WorkLoop
    \/ BucketCommands
    \/ \E b \in BucketIds :
        Heartbeat(b, Event(None, NanosPerMicro, 0, "x"), NanosPerMicro)
    \/ \E b \in BucketIds, id \in EventIds : GetEvent(b, id)

SpecBuckets == Init /\ [][NextBuckets]_vars

\* the worker under event writes on "b1" with events of any duration
NextInputs ==
    \/ WorkLoop
    \/ \E events \in ArbitraryBatches : InsertEvents("b1", events)
    \/ \E event \in ArbitraryEvents, pulsetime \in Pulsetimes :
        Heartbeat("b1", event, pulsetime)
    \/ \E id \in EventIds : GetEvent("b1", id)

SpecInputs == Init /\ [][NextInputs]_vars

\* key-value commands
KeyValueCommands ==
    \/ \E key \in Keys, data \in JsonTexts : SetKeyValue(key, data)
    \/ \E key \in Keys : GetKeyValue(key)
    \/ \E key \in Keys : DeleteKeyValue(key)
    \/ \E pattern \in Patterns : GetKeyValues(pattern)

\* the worker under key-value traffic
NextKeyValue == WorkLoop \/ KeyValueCommands

SpecKeyValue == Init /\ [][NextKeyValue]_vars

\* the worker under every Command, each with few inputs
NextCommands ==
    \/ WorkLoop
    \/ \E bucket \in BucketInputs :
        bucket.id = "b1" /\ bucket.created = None /\ CreateBucket(bucket)
    \/ DeleteBucket("b1")
    \/ \E b \in BucketIds : GetBucket(b)
    \/ GetBuckets
    \/ InsertEvents("b1", <<Event(None, 0, 0, "x")>>)
    \/ Heartbeat("b1", Event(None, NanosPerMicro, 0, "x"), NanosPerMicro)
    \/ DeleteEventsById("b1", {1})
    \/ \E b \in BucketIds : GetEvent(b, 1)
    \/ \E start \in StartTimes, limit \in Limits \cup {LimitOverflowing} :
        GetEvents("b1", start, None, limit)
    \/ \E b \in BucketIds : GetEventCount(b, None, None)
    \/ \E key \in {SettingsTheme, CacheFoo}, data \in {"1", "dark"} :
        SetKeyValue(key, data)
    \/ \E key \in {SettingsTheme, CacheFoo} : GetKeyValue(key)
    \/ \E key \in {SettingsTheme, CacheFoo} : DeleteKeyValue(key)
    \/ GetKeyValues(<<"%">>)

SpecCommands == Init /\ [][NextCommands]_vars

\* the database an earlier run left: bucket "b1" with one event of one
\* microsecond
RestartDatabase ==
    [buckets |-> [b \in {"b1"} |-> [id |-> 1, created |-> 0]],
     events |-> {[id |-> 1, bucket_id |-> "b1", timestamp |-> 0, duration |-> 1,
                 data |-> "x"]},
     buckets_id_seq |-> 1, events_id_seq |-> 1]

InitRestart == InitWith(RestartDatabase) /\ rate_limit_enabled = FALSE

\* the worker restarted on that database, under every Command
SpecRestart == InitRestart /\ [][NextCommands]_vars

\* the worker under a stream of heartbeats that merge, while time passes
NextCycle ==
    \/ WorkLoop
    \/ Tick
    \/ /\ uncommitted_events <= MaxUncommitted
       /\ HeartbeatArm("b1", Event(None, 0, 0, "x"), 0)

SpecCycle == Init /\ [][NextCycle]_vars

\* the counter is followed while it is below MaxCounted
Counting == uncommitted_events < MaxCounted

\* the worker under event writes that succeed and fail within one cycle,
\* between commands that write elsewhere
NextCounter ==
    \/ WorkLoop
    \/ Counting /\ \E events \in ArbitraryBatches : InsertEventsArm("b1", events)
    \/ Counting /\ \E event \in ArbitraryEvents :
                    HeartbeatArm("b1", event, NanosPerMicro)
    \/ DeleteEventsById("b1", {1})
    \/ GetEvents("b1", None, None, None)
    \/ DeleteBucket("b1")
    \/ SetKeyValue(SettingsTheme, "1")

SpecCounter == Init /\ [][NextCounter]_vars

(***************************************************************************)
(* The Datastore handle: callers send Commands through the request channel *)
(* and wait for the response (Datastore::create_bucket and the other       *)
(* methods).                                                               *)
(***************************************************************************)
worker_vars == <<pc, db_vars, buckets_cache, last_heartbeat,
                 uncommitted_events, commit, quit, request, response, pre,
                 kv_vars, time_vars>>

\* the Commands the callers send
ChannelCommands ==
    {[cmd |-> "CreateBucket",
      bucket |-> [bid |-> None, id |-> "b1", created |-> None,
                  metadata |-> [start |-> None, end |-> None]]],
     [cmd |-> "GetBucket", bucket_id |-> "b1"],
     [cmd |-> "ForceCommit"],
     [cmd |-> "Close"]}

\* the calls made so far
Tickets == Cardinality({c \in Callers : calls[c].state # "idle"})

\* CreateBucket commands sent and not yet answered
PendingCreates ==
    Cardinality({c \in Callers :
        calls[c].state = "waiting" /\ calls[c].request.cmd = "CreateBucket"})

\* `self.requester.request(cmd)` while the worker holds the RequestReceiver:
\* the Command is queued and the caller waits in `receiver.collect()`
Request(c, req) ==
    /\ calls[c].state = "idle"
    /\ pc # "finished"
    /\ req.cmd = "CreateBucket" => buckets_id_seq + PendingCreates < MaxBid
    /\ inbox' = Append(inbox, [caller |-> c, request |-> req])
    /\ calls' = [calls EXCEPT ![c] =
                    [state |-> "waiting", ticket |-> Tickets + 1,
                     request |-> req, result |-> NoResponse]]
    /\ UNCHANGED <<worker_vars, api_vars, http_vars>>

\* `self.requester.request(cmd).unwrap()` after the worker thread has ended
\* and dropped the RequestReceiver: request() is Err and unwrap() panics
RequestDisconnected(c, req) ==
    /\ calls[c].state = "idle"
    /\ pc = "finished"
    /\ calls' = [calls EXCEPT ![c] =
                    [state |-> "panicked", ticket |-> Tickets + 1,
                     request |-> req, result |-> NoResponse]]
    /\ UNCHANGED <<worker_vars, api_vars, http_vars, inbox>>

\* `receiver.collect().unwrap()` of a request the worker never polled: the
\* response sender is dropped with the channel, collect() is Err and
\* unwrap() panics
CollectDisconnected(c) ==
    /\ calls[c].state = "waiting"
    /\ pc = "finished"
    /\ calls' = [calls EXCEPT ![c].state = "panicked"]
    /\ inbox' = SelectSeq(inbox, LAMBDA m : m.caller # c)
    /\ UNCHANGED <<worker_vars, api_vars, http_vars>>

\* the worker polls the oldest request of the channel and answers it: one
\* action per Command the callers send
ServeCreateBucket == inbox # <<>> /\ \E bucket \in BucketInputs : CreateBucket(bucket)
ServeGetBucket == inbox # <<>> /\ \E b \in BucketIds : GetBucket(b)
ServeForceCommit == inbox # <<>> /\ ForceCommit
ServeClose == inbox # <<>> /\ Close

\* the steps of the worker thread
WorkerSteps ==
    \/ Migrate
    \/ LoadBuckets
    \/ BeginCycle
    \/ CommitCheck
    \/ ServeCreateBucket
    \/ ServeGetBucket
    \/ ServeForceCommit
    \/ ServeClose

\* the steps of the threads that hold the handle
CallerSteps ==
    \/ \E c \in Callers, req \in ChannelCommands : Request(c, req)
    \/ \E c \in Callers, req \in ChannelCommands : RequestDisconnected(c, req)
    \/ \E c \in Callers : CollectDisconnected(c)

NextChannel == WorkerSteps \/ CallerSteps

\* a new database
InitChannel == Init /\ db_buckets = EmptyMap

\* the worker and the callers of its handle; the worker thread is scheduled
\* whenever it can take a step
SpecChannel ==
    InitChannel /\ [][NextChannel]_vars /\ WF_vars(WorkerSteps)

(***************************************************************************)
(* The API-key store (api_key_helpers.rs).  Its functions are called from  *)
(* request handlers with a reference to the pool; each SQL statement is a  *)
(* step, and handlers run side by side.                                    *)
(***************************************************************************)
\* keys generate_api_key can produce, and one it never produces here
GeneratedKeys == {"k1", "k2"}
Plaintexts == GeneratedKeys \cup {"k3"}

\* keys presented for validation: one that can be issued, one that cannot
ValidatedKeys == {"k1", "k3"}

\* `client_id` of create_api_key
ClientIds == {"w1", "w2"}

\* hash_api_key: the SHA-256 digest of the key in hex; different keys have
\* different digests
hash_api_key(key) ==
    CASE key = "k1" -> "h1"
      [] key = "k2" -> "h2"
      [] OTHER -> "h3"

\* a faulty create_api_key: the key itself is stored
create_api_key_row_unhashed(id, api_key, client_id, description, now) ==
    [id |-> id, key_hash |-> api_key, client_id |-> client_id,
     description |-> description, created_at |-> now, last_used_at |-> None,
     is_active |-> TRUE]

\* create_api_key: the row of INSERT INTO api_keys (key_hash, client_id,
\* description, created_at, is_active) VALUES ($1, $2, $3, NOW(), TRUE)
create_api_key_row(id, api_key, client_id, description, now) ==
    [id |-> id, key_hash |-> hash_api_key(api_key), client_id |-> client_id,
     description |-> description, created_at |-> now, last_used_at |-> None,
     is_active |-> TRUE]

\* the INSERT fails on UNIQUE (key_hash) when the digest is stored already
create_api_key_fails(rows, row) ==
    \E r \in rows : r.key_hash = row.key_hash

\* validate_api_key: the rows WHERE key_hash = $1 AND is_active = TRUE
validate_api_key_rows(rows, api_key) ==
    {r \in rows : r.key_hash = hash_api_key(api_key) /\ r.is_active}

\* a faulty validate_api_key: the touch makes the key active again
validate_api_key_touch_activating(rows, id, now) ==
    {IF r.id = id THEN [r EXCEPT !.last_used_at = Some(now), !.is_active = TRUE]
     ELSE r : r \in rows}

\* validate_api_key: UPDATE api_keys SET last_used_at = NOW() WHERE id = $1
validate_api_key_touch(rows, id, now) ==
    {IF r.id = id THEN [r EXCEPT !.last_used_at = Some(now)] ELSE r : r \in rows}

\* a faulty validate_api_key: last_used_at is written on a miss as well
validate_api_key_miss_touching(rows, api_key, now) ==
    {IF r.key_hash = hash_api_key(api_key)
     THEN [r EXCEPT !.last_used_at = Some(now)] ELSE r : r \in rows}

\* validate_api_key: the table after the lookup found no row
validate_api_key_miss(rows, api_key, now) == rows

\* revoke_api_key: UPDATE api_keys SET is_active = FALSE WHERE id = $1
revoke_api_key(rows, key_id) ==
    {IF r.id = key_id THEN [r EXCEPT !.is_active = FALSE] ELSE r : r \in rows}

\* revoke_api_key: `rows_affected > 0`
revoke_api_key_result(rows, key_id) == \E r \in rows : r.id = key_id

\* list_api_keys: one ApiKeyInfo of the result
ApiKeyInfo(r) ==
    [id |-> r.id, client_id |-> r.client_id, description |-> r.description,
     created_at |-> r.created_at, last_used_at |-> r.last_used_at,
     is_active |-> r.is_active]

\* list_api_keys: the results ORDER BY created_at DESC allows; rows of one
\* created_at come in any order
list_api_keys(rows) ==
    {q \in [1..Cardinality(rows) -> {ApiKeyInfo(r) : r \in rows}] :
        /\ \A r \in rows : \E i \in DOMAIN q : q[i] = ApiKeyInfo(r)
        /\ \A i, j \in DOMAIN q : i < j => q[i].created_at >= q[j].created_at}

\* history: what a validate_api_key that starts now finds the key to be
KeyStatus(api_key) ==
    IF \A i \in issued : i.api_key # api_key THEN "unknown"
    ELSE IF \E i \in issued : i.api_key = api_key /\ i.id \in revoked
         THEN "revoked" ELSE "live"

\* create_api_key(pool, client_id, None)
CreateApiKey(client_id) ==
    /\ api_keys_id_seq < MaxKeys
    /\ \E api_key \in GeneratedKeys :
        LET id == api_keys_id_seq + 1
            row == create_api_key_row(id, api_key, client_id, None, clock)
        IN /\ api_keys_id_seq' = id
           /\ IF create_api_key_fails(api_keys, row)
              THEN /\ api_call' = [op |-> "create", client_id |-> client_id,
                                   result |-> Err("sqlx::Error", "unique_violation")]
                   /\ UNCHANGED <<api_keys, issued>>
              ELSE /\ api_keys' = api_keys \cup {row}
                   /\ api_call' = [op |-> "create", client_id |-> client_id,
                                   result |-> Ok("key", <<id, api_key>>)]
                   /\ issued' = issued \cup
                        {[id |-> id, api_key |-> api_key, client_id |-> client_id]}
    /\ UNCHANGED <<worker_vars, chan_vars, http_vars, validations, revoked>>

\* list_api_keys(pool)
ListApiKeys ==
    /\ \E keys \in list_api_keys(api_keys) :
        api_call' = [op |-> "list", result |-> Ok("keys", keys)]
    /\ UNCHANGED <<worker_vars, chan_vars, http_vars, api_keys, api_keys_id_seq,
                   validations, issued, revoked>>

\* revoke_api_key(pool, key_id)
RevokeApiKey(key_id) ==
    /\ api_keys' = revoke_api_key(api_keys, key_id)
    /\ api_call' = [op |-> "revoke", key_id |-> key_id,
                    result |-> Ok("bool", revoke_api_key_result(api_keys, key_id))]
    /\ revoked' = IF revoke_api_key_result(api_keys, key_id)
                  THEN revoked \cup {key_id} ELSE revoked
    /\ UNCHANGED <<worker_vars, chan_vars, http_vars, api_keys_id_seq, validations, issued>>

\* validate_api_key(pool, api_key): the SELECT, and Ok(None) without a row
ValidateSelect(t, api_key) ==
    /\ validations[t].pc = "idle"
    /\ LET rows == validate_api_key_rows(api_keys, api_key) IN
       IF rows = {}
       THEN /\ api_keys' = validate_api_key_miss(api_keys, api_key, clock)
            /\ validations' = [validations EXCEPT ![t] =
                    [pc |-> "returned", api_key |-> api_key, row |-> None,
                     result |-> None, start |-> KeyStatus(api_key)]]
       ELSE \E r \in rows :
            /\ validations' = [validations EXCEPT ![t] =
                    [pc |-> "selected", api_key |-> api_key,
                     row |-> Some(<<r.id, r.client_id>>),
                     result |-> None, start |-> KeyStatus(api_key)]]
            /\ UNCHANGED api_keys
    /\ UNCHANGED <<worker_vars, chan_vars, http_vars, api_keys_id_seq, api_call, issued,
                   revoked>>

\* validate_api_key: the UPDATE of last_used_at, and Ok(Some((id, client_id)))
ValidateUpdate(t) ==
    /\ validations[t].pc = "selected"
    /\ api_keys' = validate_api_key_touch(api_keys, validations[t].row[1][1], clock)
    /\ validations' = [validations EXCEPT ![t].pc = "returned",
                                          ![t].result = validations[t].row]
    /\ UNCHANGED <<worker_vars, chan_vars, http_vars, api_keys_id_seq, api_call, issued,
                   revoked>>

\* the guard is done with the result
ValidateReturn(t) ==
    /\ validations[t].pc = "returned"
    /\ validations' = [validations EXCEPT ![t] = IdleValidation]
    /\ UNCHANGED <<worker_vars, chan_vars, http_vars, api_keys, api_keys_id_seq, api_call,
                   issued, revoked>>

\* the API-key store under its four functions, while time passes
NextApiKeys ==
    \/ \E client_id \in ClientIds : CreateApiKey(client_id)
    \/ ListApiKeys
    \/ \E key_id \in 1..MaxKeys : RevokeApiKey(key_id)
    \/ \E t \in Validators, api_key \in ValidatedKeys : ValidateSelect(t, api_key)
    \/ \E t \in Validators : ValidateUpdate(t)
    \/ \E t \in Validators : ValidateReturn(t)
    \/ (clock < MaxApiClock /\ Tick)

\* the store on a new database
InitApiKeys == Init /\ db_buckets = EmptyMap

SpecApiKeys == InitApiKeys /\ [][NextApiKeys]_vars

(***************************************************************************)
(* The rate limiter (aw-server/src/middleware/rate_limit.rs): a fairing    *)
(* around the routes, with the times of the accepted requests per client   *)
(* IP in RATE_LIMIT_CACHE.                                                 *)
(***************************************************************************)
\* `now.checked_sub(Duration::from_secs(self.window_seconds))`
window_start(now) == now - window_seconds

\* `cache.entry(key.to_string()).or_insert_with(Vec::new)`
cache_entry(cache, key) == IF key \in DOMAIN cache THEN cache[key] ELSE <<>>

\* `requests.retain(|&time| time > window_start)`
retain(requests, start) == SelectSeq(requests, LAMBDA time : time > start)

\* check_rate_limit: the bool returned
check_rate_limit(requests, now) ==
    ~(Len(retain(requests, window_start(now))) >= requests_per_minute)

\* check_rate_limit: the Vec of the key afterwards
check_rate_limit_requests(requests, now) ==
    IF check_rate_limit(requests, now)
    THEN Append(retain(requests, window_start(now)), now)
    ELSE retain(requests, window_start(now))

\* Fairing::info: the callbacks the fairing asks Rocket for
info_kind == {"Request"}

\* Request::local_cache: the request-local state after a call for a type;
\* the closure's value is stored when no value of that type is cached
local_cache(state, type, value) ==
    IF type \in DOMAIN state THEN state ELSE MapInsert(state, type, value)

\* on_request: the request-local state when check_rate_limit returned allowed
on_request(state, allowed) ==
    IF allowed THEN state
    ELSE local_cache(state, "Status", "TooManyRequests")

\* on_response: the exchange after it looked up `None::<Status>`
on_response(exchange) ==
    LET state == local_cache(exchange.local_cache, "Option<Status>", None)
        status == state["Option<Status>"]
    IN IF status # None /\ status[1] = "TooManyRequests"
       THEN [exchange EXCEPT !.local_cache = state,
                             !.status = "TooManyRequests",
                             !.body = "Rate limit exceeded"]
       ELSE [exchange EXCEPT !.local_cache = state]

\* a request of client ip arrives: the request callback of the fairing
OnRequest(ip) ==
    /\ exchanges[ip].stage = "idle"
    /\ IF ~rate_limit_enabled
       THEN /\ exchanges' = [exchanges EXCEPT ![ip].stage = "requested"]
            /\ UNCHANGED <<RATE_LIMIT_CACHE, accepted>>
       ELSE LET requests == cache_entry(RATE_LIMIT_CACHE, ip)
                allowed == check_rate_limit(requests, clock)
            IN
            /\ RATE_LIMIT_CACHE' = MapInsert(RATE_LIMIT_CACHE, ip,
                    check_rate_limit_requests(requests, clock))
            /\ accepted' = IF allowed
                           THEN [accepted EXCEPT ![ip] = Append(@, clock)]
                           ELSE accepted
            /\ exchanges' = [exchanges EXCEPT
                    ![ip].stage = "requested",
                    ![ip].allowed = allowed,
                    ![ip].local_cache = on_request(@, allowed)]
    /\ UNCHANGED <<worker_vars, chan_vars, api_vars, rate_limit_enabled>>

\* the request is routed: a request callback cannot end a request, the route
\* runs and makes its response
Route(ip) ==
    /\ exchanges[ip].stage = "requested"
    /\ exchanges' = [exchanges EXCEPT ![ip].stage = "routed",
                                      ![ip].status = "Ok",
                                      ![ip].body = "content"]
    /\ UNCHANGED <<worker_vars, chan_vars, api_vars, rate_limit_enabled,
                   RATE_LIMIT_CACHE, accepted>>

\* the response goes out: Rocket calls the response callback of the fairings
\* that asked for it
OnResponse(ip) ==
    /\ exchanges[ip].stage = "routed"
    /\ exchanges' = [exchanges EXCEPT ![ip] =
            [(IF "Response" \in info_kind THEN on_response(@) ELSE @)
                EXCEPT !.stage = "responded"]]
    /\ UNCHANGED <<worker_vars, chan_vars, api_vars, rate_limit_enabled,
                   RATE_LIMIT_CACHE, accepted>>

\* the client has its response
Responded(ip) ==
    /\ exchanges[ip].stage = "responded"
    /\ exchanges' = [exchanges EXCEPT ![ip] = IdleExchange]
    /\ UNCHANGED <<worker_vars, chan_vars, api_vars, rate_limit_enabled,
                   RATE_LIMIT_CACHE, accepted>>

\* the fairing under requests of the clients, while time passes
NextRateLimit ==
    \/ \E ip \in ClientIps : OnRequest(ip)
    \/ \E ip \in ClientIps : Route(ip)
    \/ \E ip \in ClientIps : OnResponse(ip)
    \/ \E ip \in ClientIps : Responded(ip)
    \/ clock < MaxRateClock /\ Tick

\* the server starts with RATE_LIMIT_ENABLED set to "true" or to something
\* else, or not set
InitRateLimit ==
    /\ InitWith(CHOOSE db \in InitialDatabases : db.buckets = EmptyMap)
    /\ rate_limit_enabled \in BOOLEAN

SpecRateLimit == InitRateLimit /\ [][NextRateLimit]_vars

(***************************************************************************)
(* Properties.  A command has just been answered in the states where       *)
(* pc = "respond": `request` and `response` are that command and its       *)
(* answer, `pre` is the state it was handled in.                           *)
(***************************************************************************)
Answered(cmd) == pc = "respond" /\ request.cmd = cmd

\* GetEventCount(b) with no bounds, on a table
CountOf(evs, b) == get_event_count(evs, b, None, None)

\* n has the data of p and starts within pulsetime t of the end of p
Mergeable(p, n, t) ==
    /\ p.data = n.data
    /\ 0 <= n.timestamp - (p.timestamp + p.duration)
    /\ n.timestamp - (p.timestamp + p.duration) <= t

\* the memo entry of bucket b in map m is None: InsertEvents was the last
\* command on b to write the memo
MemoReset(m, b) == b \in DOMAIN m /\ m[b] = None

\* the memo entry of bucket b in map m is Some(p): a Heartbeat was
MemoHolds(m, b) == b \in DOMAIN m /\ m[b] # None

\* C1: a Heartbeat on b that follows a successful InsertEvents on b, has the
\* data of the tail row of b and starts within pulsetime of its end, answers
\* with the tail's id and timestamp and leaves GetEventCount(b) as it was.
C1_HeartbeatAfterInsertMergesTail ==
    (/\ Answered("Heartbeat")
     /\ MemoReset(pre.last_heartbeat, request.bucket_id)
     /\ request.bucket_id \in DOMAIN pre.db_buckets)
    => \A tail \in TailRows(pre.db_events, request.bucket_id) :
          Mergeable(RowEvent(tail), request.event, request.pulsetime)
          => /\ response.ok
             /\ response.val[1].id = Some(tail.id)
             /\ response.val[1].timestamp = tail.timestamp
             /\ CountOf(db_events, request.bucket_id)
                    = CountOf(pre.db_events, request.bucket_id)

\* C2: a Heartbeat(b, n, t) whose previous event p is the one the memo holds
\* merges iff Mergeable(p, n, t); when it merges it answers with p's id,
\* timestamp and data and the duration (n.timestamp + n.duration) -
\* p.timestamp, and the number of events of b stays the same.
C2_MemoizedHeartbeatMerge ==
    (Answered("Heartbeat") /\ MemoHolds(pre.last_heartbeat, request.bucket_id))
    => LET b == request.bucket_id
           p == pre.last_heartbeat[b][1]
           n == request.event
       IN
       IF Mergeable(p, n, request.pulsetime)
       THEN /\ response = Ok("Event",
                    Event(p.id, p.timestamp,
                          (n.timestamp + n.duration) - p.timestamp, p.data))
            /\ CountOf(db_events, b) = CountOf(pre.db_events, b)
       ELSE response.ok =>
                /\ response.val[1].id # p.id
                /\ CountOf(db_events, b) # CountOf(pre.db_events, b)

\* a memoized event was extended by a heartbeat that starts after its end
C2_Witness ==
    /\ Answered("Heartbeat")
    /\ MemoHolds(pre.last_heartbeat, request.bucket_id)
    /\ Mergeable(pre.last_heartbeat[request.bucket_id][1], request.event,
                 request.pulsetime)
    /\ response.ok
    /\ response.val[1].duration
            > pre.last_heartbeat[request.bucket_id][1].duration

\* the worker does not merge the heartbeat it has just answered: none of the
\* previous events it can have taken is mergeable, or there is none
NotMerged ==
    \A last \in heartbeat_last_event(pre.last_heartbeat, pre.db_events,
                                     request.bucket_id) :
        last = None \/ ~Mergeable(last[1], request.event, request.pulsetime)

\* C3: a Heartbeat on an existing bucket b that does not merge inserts exactly
\* one event: the answer carries an id that no event had, the table is the
\* old one plus that one row, and GetEventCount(b) has grown by 1.
C3_UnmergedHeartbeatInserts ==
    (/\ Answered("Heartbeat")
     /\ request.bucket_id \in DOMAIN pre.db_buckets
     /\ NotMerged)
    => /\ response.ok
       /\ response.kind = "Event"
       /\ response.val[1].id # None
       /\ \A e \in pre.db_events : response.val[1].id # Some(e.id)
       /\ db_events = pre.db_events \cup
            {[id |-> response.val[1].id[1], bucket_id |-> request.bucket_id,
              timestamp |-> request.event.timestamp,
              duration |-> num_microseconds(request.event.duration),
              data |-> request.event.data]}
       /\ CountOf(db_events, request.bucket_id)
            = CountOf(pre.db_events, request.bucket_id) + 1

\* a heartbeat with other data than the memoized event was inserted beside it
C3_Witness ==
    /\ Answered("Heartbeat")
    /\ MemoHolds(pre.last_heartbeat, request.bucket_id)
    /\ pre.last_heartbeat[request.bucket_id][1].data # request.event.data
    /\ EventsOf(pre.db_events, request.bucket_id) # {}
    /\ response.ok
    /\ CountOf(db_events, request.bucket_id) = 2

\* the commands that name the bucket of an event
EventCommands ==
    {"InsertEvents", "Heartbeat", "GetEvent", "GetEvents", "GetEventCount",
     "DeleteEventsById"}

\* C8: an event command on a bucket id that does not exist is answered
\* NoSuchBucket(id).
C8_EventCommandsNoSuchBucket ==
    (/\ pc = "respond"
     /\ request.cmd \in EventCommands
     /\ request.bucket_id \notin DOMAIN pre.db_buckets)
    => response = Err("NoSuchBucket", request.bucket_id)

\* the events of bucket b in table evs that satisfy each bound that is present
InRange(evs, b, start, end) ==
    {e \in EventsOf(evs, b) :
        /\ start # None => RowEnd(e) >= start[1]
        /\ end # None => e.timestamp <= end[1]}

\* C10: GetEvents(b, start, end, limit = None) answers with exactly the events
\* of b that satisfy every bound that is present.
C10_GetEventsFiltersByPresentBounds ==
    (Answered("GetEvents") /\ request.limit = None)
    => /\ response.ok
       /\ {response.val[1][i] : i \in DOMAIN response.val[1]}
            = {RowEvent(e) : e \in InRange(db_events, request.bucket_id,
                                           request.start, request.end)}
       /\ Len(response.val[1])
            = Cardinality(InRange(db_events, request.bucket_id,
                                  request.start, request.end))

\* C4: once the cache is loaded it has an entry for exactly the bucket ids
\* stored in the database, so GetBucket(id) succeeds iff the bucket is stored:
\* loaded or created, and not deleted since.
C4_CacheIdsAreStoredIds ==
    /\ pc \notin {"migrate"} \cup LoadPositions => DOMAIN buckets_cache = DOMAIN db_buckets
    /\ Answered("GetBucket")
       => (response.ok <=> request.bucket_id \in DOMAIN db_buckets)

\* a bucket has just been deleted while another one stays
C4_Witness ==
    /\ Answered("DeleteBucket")
    /\ response.ok
    /\ request.bucket_id \in DOMAIN pre.buckets_cache
    /\ DOMAIN buckets_cache # {}

\* C5: after CreateBucket(b) succeeds, GetBucket(b.id) returns b with the
\* created timestamp (the supplied one, else the time of the insert) and the
\* id the store assigned, and GetBuckets() has that bucket under b.id.
C5_CreatedBucketIsReturned ==
    (Answered("CreateBucket") /\ response.ok)
    => LET b == request.bucket
           got == get_bucket(buckets_cache, b.id)
           all == get_buckets(buckets_cache)
       IN
       /\ got.ok
       /\ got.kind = "Bucket"
       /\ got.val[1].id = b.id
       /\ got.val[1].metadata = b.metadata
       /\ got.val[1].bid = Some(db_buckets[b.id].id)
       /\ got.val[1].bid = Some(buckets_id_seq)
       /\ got.val[1].created # None
       /\ got.val[1].created[1] = db_buckets[b.id].created
       /\ IF b.created # None
          THEN got.val[1].created = b.created
          ELSE got.val[1].created[1] \in ClockValues
       /\ all.ok
       /\ b.id \in DOMAIN all.val[1]
       /\ all.val[1][b.id] = got.val[1]

\* a second bucket was created without a created timestamp
C5_Witness ==
    /\ Answered("CreateBucket")
    /\ response.ok
    /\ request.bucket.created = None
    /\ Cardinality(DOMAIN buckets_cache) = 2

\* C6: CreateBucket with an id that is stored fails with
\* BucketAlreadyExists(id); the stored and the cached buckets, the events and
\* the worker's memo, counter and commit flag are as before.
C6_DuplicateCreateChangesNothing ==
    (Answered("CreateBucket") /\ request.bucket.id \in DOMAIN pre.db_buckets)
    => /\ response = Err("BucketAlreadyExists", request.bucket.id)
       /\ db_buckets = pre.db_buckets
       /\ db_events = pre.db_events
       /\ buckets_cache = pre.buckets_cache
       /\ last_heartbeat = pre.last_heartbeat
       /\ uncommitted_events = pre.uncommitted_events
       /\ commit = pre.commit

\* a bucket that has an event was created again with another created timestamp
C6_Witness ==
    /\ Answered("CreateBucket")
    /\ request.bucket.id \in DOMAIN pre.db_buckets
    /\ EventsOf(db_events, request.bucket.id) # {}
    /\ request.bucket.created # None
    /\ request.bucket.created # buckets_cache[request.bucket.id].created
    /\ ~response.ok

\* C7: a successful DeleteBucket(id) removes the bucket and all its events:
\* GetEvent(id, e) fails for every e, and the events, the rows and the cache
\* entries of the other buckets are as before.
C7_DeleteBucketCascades ==
    (Answered("DeleteBucket") /\ response.ok)
    => LET id == request.bucket_id IN
       /\ id \notin DOMAIN db_buckets
       /\ id \notin DOMAIN buckets_cache
       /\ EventsOf(db_events, id) = {}
       /\ \A e \in 0..(events_id_seq + 1) : ~get_event(db_events, id, e).ok
       /\ DOMAIN db_buckets = DOMAIN pre.db_buckets \ {id}
       /\ DOMAIN buckets_cache = DOMAIN pre.buckets_cache \ {id}
       /\ \A o \in DOMAIN db_buckets : db_buckets[o] = pre.db_buckets[o]
       /\ \A o \in DOMAIN buckets_cache : buckets_cache[o] = pre.buckets_cache[o]
       /\ \A o \in BucketIds \ {id} :
            EventsOf(db_events, o) = EventsOf(pre.db_events, o)

\* the deleted bucket had an event, and so has the bucket that stays
C7_Witness ==
    /\ Answered("DeleteBucket")
    /\ response.ok
    /\ EventsOf(pre.db_events, request.bucket_id) # {}
    /\ db_events # {}

\* C9: GetBucket and DeleteBucket on an id that is not present answer
\* NoSuchBucket(id) and leave the database, the cache, the memo and the commit
\* flag as they were.
C9_AbsentBucketNoSuchBucket ==
    (/\ pc = "respond"
     /\ request.cmd \in {"GetBucket", "DeleteBucket"}
     /\ request.bucket_id \notin DOMAIN pre.db_buckets)
    => /\ response = Err("NoSuchBucket", request.bucket_id)
       /\ db_buckets = pre.db_buckets
       /\ db_events = pre.db_events
       /\ buckets_cache = pre.buckets_cache
       /\ last_heartbeat = pre.last_heartbeat
       /\ commit = pre.commit

\* a DeleteBucket of an absent id was refused while the memo has an entry and
\* no commit is pending
C9_Witness ==
    /\ Answered("DeleteBucket")
    /\ request.bucket_id \notin DOMAIN pre.db_buckets
    /\ ~response.ok
    /\ DOMAIN last_heartbeat # {}
    /\ ~commit

\* the Vec<Event> of an answer, as the set of its events
Returned(events) == {events[i] : i \in DOMAIN events}

\* C11: GetEventCount(b, start, end) is the length of
\* GetEvents(b, start, end, None) evaluated in the same state, whichever of
\* start and end are present.
C11_CountIsLengthOfGetEvents ==
    Answered("GetEventCount")
    => \A events \in get_events(db_events, request.bucket_id, request.start,
                                request.end, None) :
          response = Ok("Count", Len(events))

\* the events of bucket b in table evs with the n greatest timestamps among
\* those that satisfy the bounds that are present: every way to choose them
Greatest(evs, b, start, end, n) ==
    {top \in SUBSET InRange(evs, b, start, end) :
        /\ Cardinality(top)
            = IF n < Cardinality(InRange(evs, b, start, end))
              THEN n ELSE Cardinality(InRange(evs, b, start, end))
        /\ \A e \in top : \A o \in InRange(evs, b, start, end) \ top :
                e.timestamp >= o.timestamp}

\* C12: GetEvents(b, s, e, n) returns at most n events, by timestamp
\* descending, and they are the n matching events with the greatest
\* timestamps.
C12_LimitedGetEventsReturnsGreatest ==
    (Answered("GetEvents") /\ request.limit # None)
    => /\ response.ok
       /\ Len(response.val[1]) <= request.limit[1]
       /\ \A i, j \in DOMAIN response.val[1] :
            i < j => response.val[1][i].timestamp >= response.val[1][j].timestamp
       /\ \E top \in Greatest(db_events, request.bucket_id, request.start,
                              request.end, request.limit[1]) :
            /\ Returned(response.val[1]) = {RowEvent(e) : e \in top}
            /\ Len(response.val[1]) = Cardinality(top)

\* C13: after InsertEvents(b, evs) succeeds the answer has the length and
\* the order of evs, each returned event e has an id, and GetEvent(b, e.id)
\* returns an event equal to e.
C13_InsertedEventsAreReadBack ==
    (Answered("InsertEvents") /\ response.ok)
    => /\ Len(response.val[1]) = Len(request.events)
       /\ \A i \in DOMAIN response.val[1] :
            LET e == response.val[1][i] IN
            /\ e.id # None
            /\ e = [request.events[i] EXCEPT !.id = e.id]
            /\ get_event(db_events, request.bucket_id, e.id[1]) = Ok("Event", e)

\* C15: every stored event has duration >= 0.
C15_StoredDurationsNotNegative ==
    \A e \in db_events : e.duration >= 0

\* the ids of the rows of a table
IdsOf(evs) == {e.id : e \in evs}

C16_DeleteEventsByIdExactAndIdempotent ==
    Answered("DeleteEventsById")
    => LET b == request.bucket_id
           ids == request.event_ids
       IN
       /\ response = Ok("Empty", None)
       /\ db_events = pre.db_events \
                        {e \in pre.db_events : e.bucket_id = b /\ e.id \in ids}
       /\ ids = {} => db_events = pre.db_events
       /\ \A o \in BucketIds \ {b} :
            EventsOf(db_events, o) = EventsOf(pre.db_events, o)
       /\ delete_events_by_id(db_events, b, ids) = db_events
       /\ db_buckets = pre.db_buckets
       /\ buckets_cache = pre.buckets_cache

\* ids naming a stored event of b, an absent id and an event of another
\* bucket were deleted from b
C16_Witness ==
    /\ Answered("DeleteEventsById")
    /\ \E e \in pre.db_events :
          e.bucket_id = request.bucket_id /\ e.id \in request.event_ids
    /\ \E e \in pre.db_events :
          e.bucket_id # request.bucket_id /\ e.id \in request.event_ids
    /\ db_events # {}

\* caller c waits for the response to its request
Waiting(c) == calls[c].state = "waiting"

\* the worker has answered the request of caller c
Served(c) == calls[c].state = "returned"

\* a Close arrived in the channel before the request of caller c
CloseAhead(c) ==
    \E d \in Callers :
        /\ calls[d].request.cmd = "Close"
        /\ calls[d].ticket > 0
        /\ calls[d].ticket < calls[c].ticket

\* the requests are answered in arrival order, one at a time: the channel
\* holds the requests of the waiting callers, each once, oldest first, and no
\* answered request arrived after one that still waits
ServedInArrivalOrder ==
    /\ \A i, j \in DOMAIN inbox :
          i < j => calls[inbox[i].caller].ticket < calls[inbox[j].caller].ticket
    /\ \A c \in Callers :
          Waiting(c) <=> \E i \in DOMAIN inbox : inbox[i].caller = c
    /\ \A i \in DOMAIN inbox : inbox[i].request = calls[inbox[i].caller].request
    /\ \A c, d \in Callers :
          (Served(c) /\ Waiting(d)) => calls[c].ticket < calls[d].ticket
    /\ Answered(request.cmd)
          => \E c \in Callers :
                /\ Served(c)
                /\ calls[c].request = request
                /\ calls[c].result = response
                /\ \A d \in Callers \ {c} : Served(d) => calls[d].ticket < calls[c].ticket

\* C17: the worker processes the commands in the order they arrive, one at a
\* time, each answered once before the next is polled, and every command that
\* arrives before a Close is eventually answered.
C17_CommandsServedInOrder ==
    /\ []ServedInArrivalOrder
    /\ \A c \in Callers : (Waiting(c) /\ ~CloseAhead(c)) ~> Served(c)

\* an answered caller while two later requests wait in the channel
C17_Witness ==
    /\ \E c \in Callers : Served(c) /\ calls[c].ticket = 1
    /\ Len(inbox) = 2

\* callers whose request is CreateBucket, all of them for the bucket "b1"
Creators == {c \in Callers : calls[c].request.cmd = "CreateBucket"}

\* C18: concurrent callers get the responses of the commands run one at a
\* time in arrival order: of the callers of CreateBucket with one id the one
\* that arrived first gets Empty, every other one BucketAlreadyExists, the
\* cache holds the bucket, and GetBucket finds it iff a CreateBucket arrived
\* before it.
C18_ConcurrentCallersAreSerialized ==
    /\ \A c \in Creators :
          Served(c) =>
            /\ "b1" \in DOMAIN buckets_cache
            /\ buckets_cache["b1"].id = "b1"
            /\ IF \E d \in Creators : calls[d].ticket < calls[c].ticket
               THEN calls[c].result = Err("BucketAlreadyExists", "b1")
               ELSE calls[c].result = Ok("Empty", None)
    /\ Cardinality({c \in Creators : Served(c) /\ calls[c].result.ok}) <= 1
    /\ \A c \in Callers :
          (Served(c) /\ calls[c].request.cmd = "GetBucket")
          => (calls[c].result.ok
                <=> \E d \in Creators : calls[d].ticket < calls[c].ticket)

\* the first two callers both sent CreateBucket and both have their answers,
\* one Empty and one BucketAlreadyExists
C18_Witness ==
    /\ Cardinality({c \in Creators : Served(c)}) = 2
    /\ \A c \in Creators : calls[c].ticket <= 2
    /\ \E c \in Creators : calls[c].result.ok
    /\ \E c \in Creators : calls[c].result.kind = "BucketAlreadyExists"

\* C19: the worker answers Close with Empty and then terminates: it reaches
\* its finished state, and no command that arrived after the Close is
\* processed or answered.
C19_CloseAnswersThenTerminates ==
    /\ [](\A c \in Callers :
            (Served(c) /\ calls[c].request.cmd = "Close")
            => /\ calls[c].result = Ok("Empty", None)
               /\ pc \in {"respond", "finished"}
               /\ \A d \in Callers :
                    calls[d].ticket > calls[c].ticket => ~Served(d))
    /\ (\E c \in Callers : Served(c) /\ calls[c].request.cmd = "Close")
          ~> (pc = "finished")

\* the worker has finished after a Close while a later request is in the
\* channel
C19_Witness ==
    /\ pc = "finished"
    /\ \E c \in Callers : Served(c) /\ calls[c].request.cmd = "Close"
    /\ inbox # <<>>

\* C20: once the worker has exited, a call in flight or made later returns
\* the error MpscError: the calling thread is not aborted.
C20_CallsAfterExitReturnMpscError ==
    \A c \in Callers :
        /\ calls[c].state # "panicked"
        /\ (pc = "finished" /\ calls[c].state = "returned" /\ CloseAhead(c))
            => calls[c].result = Err("MpscError", None)


\* the errors the adapter can hand to the Heartbeat handler
HeartbeatAdapterErrors ==
    {replace_last_event_error, insert_events_error(<<request.event>>, 1)}

\* C21: a Heartbeat that fails on an error of replace_last_event or of
\* insert_events answers with that error, and the heartbeat memo and
\* uncommitted_events are what they were when the request was polled.
C21_FailedHeartbeatChangesNoWorkerState ==
    (Answered("Heartbeat") /\ ~response.ok)
    => /\ response \in HeartbeatAdapterErrors
       /\ response.kind = "InternalError"
       /\ last_heartbeat = pre.last_heartbeat
       /\ uncommitted_events = pre.uncommitted_events

\* a Heartbeat that merged with the memoized event has failed in
\* replace_last_event
C21_Witness ==
    /\ Answered("Heartbeat")
    /\ ~response.ok
    /\ MemoHolds(pre.last_heartbeat, request.bucket_id)
    /\ Mergeable(pre.last_heartbeat[request.bucket_id][1], request.event,
                 request.pulsetime)
    /\ request.bucket_id \in DOMAIN db_buckets

\* the rows a table gains when events 1..n of a batch are inserted into
\* bucket b with the ids that follow seq
RowsOfPrefix(b, events, n, seq) ==
    {[id |-> seq + i, bucket_id |-> b, timestamp |-> events[i].timestamp,
      duration |-> num_microseconds(events[i].duration),
      data |-> events[i].data] : i \in 1..n}

\* C22: when InsertEvents(b, evs) fails at the k-th event, the rows of the
\* first k-1 events are stored with the ids assigned to them, no row of a
\* later event is, and the answer is InternalError with a message and no list
\* of events.
C22_FailedBatchKeepsEarlierRows ==
    (Answered("InsertEvents") /\ ~response.ok)
    => LET k == insert_events_stops(pre.db_buckets, request.bucket_id,
                                    request.events)
       IN /\ k \in 1..Len(request.events)
          /\ db_events = pre.db_events \cup
                RowsOfPrefix(request.bucket_id, request.events, k - 1,
                             pre.events_id_seq)
          /\ Cardinality(db_events) = Cardinality(pre.db_events) + (k - 1)
          /\ response.kind = "InternalError"
          /\ response.val[1] \in {"Failed to insert event",
                                   "Duration too large for microseconds"}

\* a batch of two has failed at its second event, and the first is stored
C22_Witness ==
    /\ Answered("InsertEvents")
    /\ ~response.ok
    /\ insert_events_stops(pre.db_buckets, request.bucket_id, request.events) = 2
    /\ Cardinality(db_events) = Cardinality(pre.db_events) + 1


\* the text serde_json writes for the value of a JSON text
Canonical(text) == IF text = " 1" THEN "1" ELSE text

\* C23 as stated: GetKeyValue(k) on a key that was set returns the very text
\* v it was last set to.
C23_GetKeyValueReturnsTextSet ==
    (Answered("GetKeyValue") /\ request.key \in DOMAIN keys_set)
    => response = Ok("KeyValue", keys_set[request.key])

\* C23 amended: GetKeyValue(k) on a key that was set returns the text it was
\* last set to in serde_json's compact form; a SetKeyValue(k, v) that succeeds
\* leaves one entry for k, which holds v, adds or removes no other key and
\* leaves the value of every other key as it was.
C23_GetKeyValueReturnsCanonicalTextSet ==
    /\ (Answered("GetKeyValue") /\ request.key \in DOMAIN keys_set)
       => response = Ok("KeyValue", Canonical(keys_set[request.key]))
    /\ (Answered("SetKeyValue") /\ response.ok)
       => /\ DOMAIN db_key_value = DOMAIN pre.db_key_value \cup {request.key}
          /\ get_key_value(db_key_value, request.key)
                = Ok("KeyValue", Canonical(request.data))
          /\ \A k \in DOMAIN db_key_value \ {request.key} :
                db_key_value[k] = pre.db_key_value[k]

\* a SetKeyValue has overwritten the value of a key with another value
C23_Witness ==
    /\ Answered("SetKeyValue")
    /\ response.ok
    /\ request.key \in DOMAIN pre.db_key_value
    /\ pre.db_key_value[request.key] # db_key_value[request.key]
    /\ request.data = " 1"
    /\ DOMAIN db_key_value # {request.key}

\* the keys of a table that start with "settings." and match a pattern
\* given as the set of keys it stands for
SettingsKeys(kv, matching) ==
    {k \in DOMAIN kv \cap matching : SubSeq(k, 1, 9) = SettingsPrefix}

\* the stored keys each LIKE argument of Patterns stands for
Matching(pattern) ==
    CASE pattern = <<"%">> -> Keys
      [] pattern = SettingsPrefix \o <<"%">> -> {SettingsTheme, SettingsLang}
      [] pattern = SettingsPrefix \o <<"t", "%">> -> {SettingsTheme}
      [] pattern = <<"c", "a", "c", "h", "e", "_", "f", "o", "o">> -> {CacheFoo}
      [] pattern = <<"%", "o">> -> {CacheFoo}
      [] OTHER -> {}

\* C24: GetKeyValues(pattern) returns exactly the stored keys that match the
\* pattern and start with "settings.", each with the text of its current
\* value; a key without the prefix is never returned.
C24_GetKeyValuesSettingsOnly ==
    Answered("GetKeyValues")
    => /\ response.ok
       /\ DOMAIN response.val[1]
            = SettingsKeys(db_key_value, Matching(request.pattern))
       /\ \A k \in DOMAIN response.val[1] :
            /\ get_key_value(db_key_value, k) = Ok("KeyValue", response.val[1][k])
            /\ response.val[1][k] = Canonical(keys_set[k])
       /\ CacheFoo \notin DOMAIN response.val[1]

\* with settings.theme and cache.foo stored, "%" has returned settings.theme
\* only
C24_Witness ==
    /\ Answered("GetKeyValues")
    /\ request.pattern = <<"%">>
    /\ DOMAIN db_key_value = {SettingsTheme, CacheFoo}
    /\ DOMAIN response.val[1] = {SettingsTheme}


\* the step that follows respond(): the test of the cycle
CycleTested == pc = "respond" /\ pc' # "respond"

\* the step that starts a cycle
CycleStarted == pc = "begin" /\ pc' # "begin"

\* C30: after a response is sent the cycle ends iff commit is set, or more
\* than 15 s have passed since the cycle started, or uncommitted_events > 100,
\* or quit is set; a cycle starts with uncommitted_events = 0, commit = FALSE
\* and last_commit_time at the clock's reading.
C30_CycleEndsOnItsFourConditions ==
    [][/\ CycleTested
          => ((pc' \in {"begin", "finished"})
               <=> \/ commit
                   \/ clock - last_commit_time > 15
                   \/ uncommitted_events > 100
                   \/ quit)
       /\ CycleStarted
          => /\ pc' = "poll"
             /\ uncommitted_events' = 0
             /\ commit' = FALSE
             /\ last_commit_time' = clock]_vars

\* a cycle has ended on the count of uncommitted events alone, in a cycle
\* that is not the first
C30_Witness ==
    /\ pc = "begin"
    /\ uncommitted_events > MaxUncommitted
    /\ ~commit
    /\ ~quit
    /\ last_commit_time > 0
    /\ clock - last_commit_time <= CommitInterval


\* C25: GetKeyValue(k) answers NoSuchKey(k) iff k was never set or was
\* deleted since it was last set; no other command answers NoSuchKey, and
\* DeleteKeyValue on a key that is not stored answers Empty.
C25_NoSuchKeyOnlyFromGetOfAbsentKey ==
    /\ Answered("GetKeyValue")
       => ((response = Err("NoSuchKey", request.key))
            <=> request.key \notin DOMAIN keys_set)
    /\ (pc = "respond" /\ request.cmd # "GetKeyValue")
       => response.kind # "NoSuchKey"
    /\ (Answered("DeleteKeyValue") /\ request.key \notin DOMAIN pre.db_key_value)
       => response = Ok("Empty", None)

\* a DeleteKeyValue of a key that is not stored has been answered, while
\* another key is stored
C25_Witness ==
    /\ Answered("DeleteKeyValue")
    /\ request.key \notin DOMAIN pre.db_key_value
    /\ db_key_value # EmptyMap
    /\ response.ok

\* the Commands that read
ReadCommands ==
    {"GetBucket", "GetBuckets", "GetEvent", "GetEvents", "GetEventCount",
     "GetKeyValue", "GetKeyValues"}

\* the tables and sequences are what they were when the request was polled
DatabaseUnchanged ==
    /\ db_buckets = pre.db_buckets
    /\ db_events = pre.db_events
    /\ buckets_id_seq = pre.buckets_id_seq
    /\ events_id_seq = pre.events_id_seq
    /\ db_key_value = pre.db_key_value

\* C29: a read command, answered with Ok or with an error, leaves the
\* database, the bucket cache, the heartbeat memo, uncommitted_events and the
\* commit flag as they were; ForceCommit sets the commit flag and leaves the
\* rest as it was.
C29_ReadsChangeNothing ==
    /\ (pc = "respond" /\ request.cmd \in ReadCommands)
       => /\ DatabaseUnchanged
          /\ buckets_cache = pre.buckets_cache
          /\ last_heartbeat = pre.last_heartbeat
          /\ uncommitted_events = pre.uncommitted_events
          /\ commit = pre.commit
    /\ Answered("ForceCommit")
       => /\ DatabaseUnchanged
          /\ buckets_cache = pre.buckets_cache
          /\ last_heartbeat = pre.last_heartbeat
          /\ uncommitted_events = pre.uncommitted_events
          /\ quit = pre.quit
          /\ commit

\* a ForceCommit has been answered with events uncommitted, rows stored
\* and a key set
C29_Witness ==
    /\ Answered("ForceCommit")
    /\ uncommitted_events > 0
    /\ db_events # {}
    /\ db_key_value # EmptyMap
    /\ ~pre.commit


\* the (id, client_id) create returned with a key
IssuedFor(api_key) ==
    {<<i.id, i.client_id>> : i \in {j \in issued : j.api_key = api_key}}

\* C26: a validate(k) that starts while k is issued and not revoked returns
\* Some((id, client_id)) of the create that returned k; one that starts after
\* revoke(id) has returned true returns None; a revoked key is never active
\* again.
C26_ValidateUntilRevoked ==
    /\ \A t \in Validators :
        validations[t].pc = "returned"
        => /\ validations[t].start = "live"
              => /\ validations[t].result # None
                 /\ IssuedFor(validations[t].api_key) = {validations[t].result[1]}
           /\ validations[t].start = "revoked"
              => validations[t].result = None
    /\ \A r \in api_keys : r.id \in revoked => ~r.is_active

\* one validation of a key started before its revoke and returned Some, one
\* started after it and returned None
C26_Witness ==
    \E t, u \in Validators :
        /\ validations[t].pc = "returned"
        /\ validations[u].pc = "returned"
        /\ validations[t].api_key = validations[u].api_key
        /\ validations[t].start = "live"
        /\ validations[t].result # None
        /\ validations[u].start = "revoked"
        /\ validations[u].result = None

\* the strings a row or an ApiKeyInfo holds
Strings(r) ==
    {r[f] : f \in DOMAIN r \cap {"key_hash", "client_id"}}
        \cup (IF r.description = None THEN {} ELSE {r.description[1]})

\* C27: the row of every key create returned holds the hash of the key, no
\* row holds a key, and the results of list, validate and revoke hold none;
\* the key is in the result of the create that made it.
C27_PlaintextOnlyFromCreate ==
    /\ \A i \in issued :
        \E r \in api_keys : r.id = i.id /\ r.key_hash = hash_api_key(i.api_key)
    /\ \A r \in api_keys : Strings(r) \cap Plaintexts = {}
    /\ api_call.op = "list"
       => \A n \in DOMAIN api_call.result.val[1] :
            /\ Strings(api_call.result.val[1][n]) \cap Plaintexts = {}
            /\ DOMAIN api_call.result.val[1][n]
                 = {"id", "client_id", "description", "created_at",
                    "last_used_at", "is_active"}
    /\ api_call.op = "revoke" => api_call.result.val[1] \in BOOLEAN
    /\ \A t \in Validators :
        validations[t].result # None
        => /\ validations[t].result[1][1] \in 1..api_keys_id_seq
           /\ validations[t].result[1][2] \in ClientIds
    /\ (api_call.op = "create" /\ api_call.result.ok)
       => [id |-> api_call.result.val[1][1],
           api_key |-> api_call.result.val[1][2],
           client_id |-> api_call.client_id] \in issued

\* a list has returned the two keys created, one of them used and revoked
C27_Witness ==
    /\ api_call.op = "list"
    /\ Len(api_call.result.val[1]) = 2
    /\ \E n \in DOMAIN api_call.result.val[1] :
        /\ api_call.result.val[1][n].last_used_at # None
        /\ ~api_call.result.val[1][n].is_active

\* a table with last_used_at of the row id set to the time now
Touched(rows, id, now) ==
    {IF r.id = id THEN [r EXCEPT !.last_used_at = Some(now)] ELSE r : r \in rows}

\* C28: validate(k) returns Some((id, client_id)) only for the record that
\* had the hash of k and was active when looked up, and then sets the
\* last_used_at of that record to the current time and nothing else; when it
\* returns None no record is modified.
C28_ValidateTouchesOnlyOnHit ==
    [][\A t \in Validators :
        /\ (validations[t].pc = "idle" /\ validations'[t].pc = "returned")
           => /\ validations'[t].result = None
              /\ api_keys' = api_keys
        /\ (validations[t].pc = "idle" /\ validations'[t].pc = "selected")
           => /\ api_keys' = api_keys
              /\ \E r \in api_keys :
                    /\ r.key_hash = hash_api_key(validations'[t].api_key)
                    /\ r.is_active
                    /\ validations'[t].row = Some(<<r.id, r.client_id>>)
        /\ (validations[t].pc = "selected" /\ validations'[t].pc = "returned")
           => /\ validations'[t].result = validations[t].row
              /\ validations'[t].result # None
              /\ api_keys' = Touched(api_keys, validations[t].row[1][1], clock)]_vars

\* a validation has returned Some after the clock moved, and the record
\* carries that time
C28_Witness ==
    \E t \in Validators :
        /\ validations[t].pc = "returned"
        /\ validations[t].result # None
        /\ clock > 0
        /\ \E r \in api_keys :
            /\ r.id = validations[t].result[1][1]
            /\ r.created_at < clock
            /\ r.last_used_at = Some(clock)


\* the Commands that set the commit flag
CommitCommands == {"CreateBucket", "DeleteBucket", "ForceCommit"}

\* C31 as stated: a CreateBucket, DeleteBucket or ForceCommit that has been
\* answered, with Ok or with an error, has set the commit flag.
C31_BucketCommandsSetCommit ==
    (pc = "respond" /\ request.cmd \in CommitCommands) => commit

\* C31: a CreateBucket or DeleteBucket that succeeds, and every ForceCommit,
\* sets the commit flag, and the step after its response starts a new cycle
\* with no command polled in between; a CreateBucket or DeleteBucket that
\* fails leaves the flag as it was.
C31_SuccessfulBucketCommandsEndCycle ==
    [][(pc = "respond" /\ request.cmd \in CommitCommands)
        => IF response.ok
           THEN /\ commit
                /\ CycleTested => /\ pc' = "begin"
                                  /\ inbox' = inbox
                                  /\ calls' = calls
           ELSE /\ request.cmd # "ForceCommit"
                /\ commit = pre.commit]_vars

\* a cycle has ended on the commit flag alone, in a database that has lost
\* a bucket
C31_Witness ==
    /\ pc = "begin"
    /\ commit
    /\ ~quit
    /\ uncommitted_events = 0
    /\ clock - last_commit_time <= CommitInterval
    /\ "b1" \notin DOMAIN db_buckets
    /\ "b2" \in DOMAIN db_buckets


\* what the command answered in the next state adds to the counter
Counted(req, resp) ==
    IF ~resp.ok THEN 0
    ELSE IF req.cmd = "InsertEvents" THEN Len(resp.val[1])
    ELSE IF req.cmd = "Heartbeat" THEN 1
    ELSE 0

\* C32: the counter is 0 when a cycle starts; a successful InsertEvents adds
\* the number of events it returns, a successful Heartbeat adds 1, merged or
\* inserted; a failed one, every other command and every other step of the
\* worker leave it as it is.
C32_CounterIsEventsWrittenInCycle ==
    [][IF CycleStarted THEN uncommitted_events' = 0
       ELSE IF pc = "poll" /\ pc' = "respond"
       THEN uncommitted_events' = uncommitted_events + Counted(request', response')
       ELSE uncommitted_events' = uncommitted_events]_vars

\* a heartbeat that merged has been counted as the third event of its cycle,
\* after a batch of two events
C32_Witness ==
    /\ Answered("Heartbeat")
    /\ response.ok
    /\ pre.uncommitted_events = 2
    /\ uncommitted_events = 3
    /\ events_id_seq = pre.events_id_seq
    /\ Cardinality(db_events) = 2


\* the Bucket the cache holds for a bucket created by CreateBucket: no
\* metadata.start and no metadata.end
AsCreated(bucket) == bucket.metadata = [start |-> None, end |-> None]

\* C33: the start-up goes from the migration, whatever its result, to the
\* load of the cache and from there to the first cycle; the load happens
\* once and sets the cache to the stored buckets; afterwards only a
\* successful CreateBucket or DeleteBucket changes the cache, an entry never
\* changes while it stays in the cache, and an entry CreateBucket adds has
\* no metadata.start/end; GetBucket answers the entry.
C33_CacheLoadedOnceThenFrozen ==
    [][/\ pc = "migrate" => pc' \in LoadPositions
       /\ pc' = "migrate" => pc = "migrate"
       /\ pc' \in LoadPositions => pc \in {"migrate"} \cup LoadPositions
       /\ pc \in LoadPositions
          => /\ pc' = "begin"
             /\ buckets_cache' = get_stored_buckets(db_buckets, db_events)
             /\ request' = NoRequest
       /\ pc = "migrate" => buckets_cache' = buckets_cache /\ request' = NoRequest
       /\ pc \notin {"migrate"} \cup LoadPositions
          => /\ \A b \in DOMAIN buckets_cache \cap DOMAIN buckets_cache' :
                    buckets_cache'[b] = buckets_cache[b]
             /\ \A b \in DOMAIN buckets_cache' \ DOMAIN buckets_cache :
                    AsCreated(buckets_cache'[b])
             /\ buckets_cache' # buckets_cache
                => /\ pc' = "respond"
                   /\ request'.cmd \in {"CreateBucket", "DeleteBucket"}
                   /\ response'.ok
       /\ (pc = "poll" /\ pc' = "respond" /\ request'.cmd = "GetBucket"
                /\ request'.bucket_id \in DOMAIN buckets_cache)
          => response' = Ok("Bucket", buckets_cache[request'.bucket_id])]_vars

\* GetBucket has answered the metadata read at the load for a bucket whose
\* event has been deleted since and that holds a later event now
C33_Witness ==
    /\ Answered("GetBucket")
    /\ response.ok
    /\ response.val[1].metadata = [start |-> Some(0), end |-> Some(NanosPerMicro)]
    /\ \A e \in EventsOf(db_events, request.bucket_id) : e.id # 1
    /\ EventsOf(db_events, request.bucket_id) # {}


\* the table evs holds event e as a row of bucket b
Stored(evs, b, e) ==
    \E r \in EventsOf(evs, b) : RowEvent(r) = e

\* C34: whenever the memo of bucket b holds Some(e), the table holds a row of
\* b with e's id, timestamp, duration and data, and that row is the tail of
\* b: greatest timestamp, ties broken by greatest id.
C34_MemoIsStoredTail ==
    \A b \in DOMAIN last_heartbeat :
        last_heartbeat[b] # None
        => /\ Stored(db_events, b, last_heartbeat[b][1])
           /\ \E r \in TailRows(db_events, b) : RowEvent(r) = last_heartbeat[b][1]


\* C35: a Heartbeat on b that has answered Ok with event r has left a row of
\* b with r's id, timestamp, duration and data, and GetEvent(b, r.id) on the
\* table answers r.
C35_HeartbeatResultIsStored ==
    (Answered("Heartbeat") /\ response.ok)
    => /\ response.val[1].id # None
       /\ Stored(db_events, request.bucket_id, response.val[1])
       /\ get_event(db_events, request.bucket_id, response.val[1].id[1])
            = Ok("Event", response.val[1])


\* the rows of table old that table new does not hold as they were
Modified(old, new) == old \ new

\* C36: a Heartbeat on b that has answered Ok with event r has modified at
\* most one row; a modified row is a row of b with r's id and is still stored
\* under that id; every other row of b and every row of another bucket is as
\* it was.
C36_HeartbeatModifiesOnlyReturnedRow ==
    (Answered("Heartbeat") /\ response.ok)
    => /\ Cardinality(Modified(pre.db_events, db_events)) <= 1
       /\ \A e \in Modified(pre.db_events, db_events) :
            /\ e.bucket_id = request.bucket_id
            /\ Some(e.id) = response.val[1].id
            /\ \E n \in EventsOf(db_events, request.bucket_id) : n.id = e.id
       /\ \A e \in pre.db_events :
            (e.bucket_id # request.bucket_id \/ Some(e.id) # response.val[1].id)
            => e \in db_events


\* the buckets for which map m memoizes an event
Memoized(m) == {b \in DOMAIN m : m[b] # None}

\* C37: the memo holds an event only for buckets that are in the bucket
\* cache, and a Heartbeat answered Ok on a bucket that held no event, as a
\* bucket created again after its DeleteBucket does, has inserted an event:
\* GetEventCount of the bucket is 1.
C37_NoMemoForDeletedBucket ==
    /\ Memoized(last_heartbeat) \subseteq DOMAIN buckets_cache
    /\ (/\ Answered("Heartbeat")
        /\ response.ok
        /\ EventsOf(pre.db_events, request.bucket_id) = {})
       => CountOf(db_events, request.bucket_id) = 1


\* C38: whenever the worker waits for the next command, commit is false,
\* quit is false and uncommitted_events <= 100; after the response of a
\* command that has raised the counter above 100 or set commit or quit, the
\* worker leaves the cycle without polling.
C38_WaitingWorkerHasCleanCycle ==
    [][/\ pc' = "poll"
          => /\ ~commit'
             /\ ~quit'
             /\ uncommitted_events' <= 100
       /\ (pc = "respond" /\ (commit \/ quit \/ uncommitted_events > 100))
          => pc' \in {"respond", "begin", "finished"}
       /\ (pc = "respond" /\ quit) => pc' \in {"respond", "finished"}]_vars

\* the worker waits with 100 events uncommitted, in a cycle that is not the
\* first
C38_Witness ==
    /\ pc = "poll"
    /\ uncommitted_events = MaxUncommitted
    /\ last_commit_time > 0
    /\ ~commit
    /\ ~quit


\* C39: once revoke(id) has returned true, no step of a validate or a revoke
\* modifies the record id: it stays in the table as it is, last_used_at
\* included, also for a validate that had looked the key up before the
\* revoke.
C39_RevokedRecordIsNeverModified ==
    [][\A r \in api_keys : r.id \in revoked => r \in api_keys']_vars


\* the requests of client ip accepted in the window that ends at time t
AcceptedInWindow(ip, t) ==
    {i \in DOMAIN accepted[ip] :
        window_start(t) < accepted[ip][i] /\ accepted[ip][i] <= t}

\* for each client IP at most requests_per_minute requests are accepted in
\* any window of window_seconds, and the cache holds accepted requests only
AcceptedWithinLimit ==
    \A ip \in ClientIps :
        /\ \A t \in 0..clock :
            Cardinality(AcceptedInWindow(ip, t)) <= requests_per_minute
        /\ \E n \in 0..Len(accepted[ip]) :
            cache_entry(RATE_LIMIT_CACHE, ip)
                = SubSeq(accepted[ip], n + 1, Len(accepted[ip]))

\* C40: with rate limiting enabled, at most requests_per_minute requests of
\* a client IP are accepted within any window of window_seconds, rejected
\* requests are not recorded, and the response of a request that
\* check_rate_limit rejected has status 429 Too Many Requests and the body
\* "Rate limit exceeded".
C40_RejectedRequestsGet429 ==
    rate_limit_enabled
    => /\ AcceptedWithinLimit
       /\ \A ip \in ClientIps :
            (exchanges[ip].stage = "responded" /\ ~exchanges[ip].allowed)
            => /\ exchanges[ip].status = "TooManyRequests"
               /\ exchanges[ip].body = "Rate limit exceeded"

====
